---- MODULE Spec2Model ----
(***************************************************************************)
(* A model of the reels generator (src/Reels): the easing library, the     *)
(* beat detector, the image preprocessing pool, the frame-motion effects,  *)
(* the transition compositors and the generate_reels pipeline.             *)
(*                                                                         *)
(* Real numbers are exact rationals <<numerator, denominator>>; times are  *)
(* counted in ticks of one beat window (50 ms).                            *)
(***************************************************************************)
EXTENDS Integers, Sequences, FiniteSets, TLC

VARIABLES
    \* easing_functions.py
    easing_name,      \* the name asked of get_easing_function
    easing_func,      \* the function it returned ("unset" before the lookup)
    ease_t,           \* the argument the function is called with, in tenths
    ease_value,       \* the value it returned (<<>> before the call)
    \* audio_sync.py, detect_beats
    energies,         \* the RMS energy of each 50 ms window
    min_interval,     \* the least spacing of two beats, in ticks (a rational)
    beats,            \* the beat times found so far, in ticks
    last_beat_time,   \* the time of the last beat taken (a rational)
    beat_i,           \* the index of the next window of the loop
    beat_pc,          \* "loop" | "done"
    \* reels_engine.py, _preprocess_images_parallel
    pool_tasks,       \* the image paths handed in, in input order
    pool_queue,       \* the executor's work queue: task indices, first in first out
    pool_running,     \* worker thread -> the task it runs (0: none)
    pool_future,      \* task index -> its future's result (<<>>: not done)
    pool_completion,  \* the task indices in the order their tasks finished
    pool_results,     \* what list(executor.map(...)) has collected so far
    processed_files,  \* the list the method builds and returns
    pool_fs,          \* the paths that exist on disk
    pool_pc,          \* "submit" | "collect" | "filter" | "done"
    \* advanced_transitions.py, apply_morph_transition
    morph_frame1,     \* frame A: its 8-bit samples
    morph_frame2,     \* frame B, of the same size
    morph_progress,   \* progress, in steps of 1 / ProgressDen
    morph_result,     \* the frame returned (<<>> before the call)
    \* advanced_transitions.py, apply_circular_wipe_transition
    wipe_size,        \* <<w, h>> of both frames
    wipe_center,      \* <<cx, cy>>, or <<>> for None
    wipe_frame1,      \* frame A: pixel <<x, y>> -> sample
    wipe_frame2,      \* frame B
    wipe_progress,    \* the progress of the last call, in steps of 1 / ProgressDen
    wipe_result,      \* the frame the last call returned (<<>> before any call)
    wipe_prev_progress,  \* the progress of the call before it (-1: none)
    wipe_prev_result,    \* and the frame it returned
    \* reels_engine.py, ReelsEngine.generate_reels
    input_dir_ok,     \* the input directory can be listed
    input_dir,        \* its entries: [name, time, kind]
    config,           \* the ReelsConfig fields generate_reels reads
    AI_AVAILABLE,     \* the openai_service import succeeded
    image_files,      \* the local image_files
    clips_bound,      \* the local clips has been assigned
    clips,            \* the local clips: [source, kind, duration, effects]
    clip_mode,        \* "svd" while _create_clips_with_svd builds the clips
    clip_idx,         \* idx of the clip loop
    clip_errors,      \* clip-creation exceptions caught so far
    skipped,          \* the images whose clip creation raised, in loop order
    raised,           \* the stage whose exception reached  except Exception
    final_clip,       \* the length of final_clip (<<>> before it exists)
    writer_calls,     \* calls of write_videofile
    output_exists,    \* a file is at output_path
    output_existed,   \* one was there before the call
    ret,              \* "running", then "True" or "False" ("raised": an
                      \* exception left generate_reels)
    progress_log,     \* the values passed to _update_progress
    reels_pc,         \* the position in generate_reels
    \* reels_engine.py and reels_engine_extensions.py, the motion of one clip
    motion_config,    \* the ReelsConfig fields the clip builders read
    motion_effects,   \* the effects attached to the clip, innermost first
    motion_duration,  \* clip.duration
    motion_k,         \* the time of the last frame, in EaseDen-ths of the
                      \* duration the motion effect captured
    motion_t,         \* the same time in seconds
    motion_frames,    \* the frame each attached effect returned for it
    motion_pc,        \* "create" | "built" | "retimed" | "rendered"
    \* agents/langgraph_workflow.py, one run of the workflow
    user_input,       \* state["user_input"]: the characters of the text
    intent,           \* state["intent"]
    intermediate_steps,  \* state["intermediate_steps"]
    node,             \* the node the graph is at: "router", a handler, "END"
    \* reels_engine.py, ReelsEngine._apply_transitions
    trans_clips,      \* the clips handed in: the duration of each
    trans_style,      \* config.transition_style
    trans_i,          \* the loop variable i, which the effect functions read
    trans_direction,  \* the variable direction, which they read too
    processed_clips,  \* the list built: the effects of each clip, innermost first
    trans_frame,      \* the last frame rendered (<<>>: none yet)
    trans_pc,         \* "loop" | "returned"
    \* audio_sync.py, adjust_clips_to_beats
    retime_clips,     \* the clips handed in: [source, duration]
    retime_beats,     \* the beat times handed in, in seconds
    new_clips,        \* the list returned (<<>> before the call)
    retime_pc,        \* "call" | "returned"
    \* face_detection.py, adjust_duration_by_importance
    dur_base,         \* base_duration
    dur_importance,   \* importance (a rational)
    dur_limits,       \* <<min_duration, max_duration>>
    dur_result,       \* the duration returned (-1 before the call)
    dur_pc,           \* "call" | "returned"
    \* face_detection.py, FaceDetector.get_smart_crop_region
    crop_image,       \* the image: [size, opens, faces]
    crop_target,      \* target_size
    focus_on,         \* focus_on_faces
    crop_region,      \* the region returned (<<>>: none)
    crop_raised,      \* get_smart_crop_region raised
    crop_box,         \* the box create_enhanced_clip crops to (<<>>: not yet)
    crop_pc,          \* "call" | "returned" | "cropped"
    \* color_grading.py, detect_mood_from_ai_analysis
    mood_ai_content,  \* ai_content: [kind, analysis]
    mood,             \* the mood returned ("" before the call)
    \* reels_engine.py, generate_reels: the progress calls
    prog_images,      \* len(image_files) after preprocessing
    prog_config,      \* the ReelsConfig fields the progress calls depend on
    prog_ai_available,\* AI_AVAILABLE
    prog_idx,         \* idx of the clip loop
    prog_log,         \* the values passed to _update_progress, in order
    prog_pc,          \* the stage of generate_reels
    \* the mission service (divia)
    mission_status,   \* mission_db.mission_status: id -> "pending" | "done" | "error"
    mission_hash,     \* mission_db.mission_hash: id -> the perceptual hash of the origin image
    mission_type,     \* mission_db.mission_type: id -> mission_kind
    mission_image,    \* the file saved as mission/<id>_origin.jpg, by what phash makes of it
    mission_task,     \* where the upload handler and its background task stand, per id
    check_pc,         \* where the mission_check request in flight stands
    check_req,        \* the form fields of the latest mission_check request
    check_evaluated,  \* which of the GPS and similarity tests that request has run
    check_response,   \* what the latest mission_check request returned
    \* the job manager
    jobs,             \* the job files of jobs_dir: job id -> job_data
    job_clock,        \* datetime.now(), in ticks
    job_call,         \* the latest call of the job manager: its arguments and what it returned
    \* the tour agent, run after run
    tour_input,       \* user_input of the run in hand
    tour_intent,      \* state["intent"]
    tour_node,        \* the node the graph is at: "idle", "router", a handler, "END"
    travel_state,     \* LandmarkWorkflow.travel_state: current_region and search_results
    tour_response,    \* state["response"], by its kind
    tour_error,       \* state["error"]
    tour_lookups,     \* the calls of the landmark agent made in this run
    tour_visited      \* the handler nodes that ran in this run

easingVars == <<easing_name, easing_func, ease_t, ease_value>>
beatVars == <<energies, min_interval, beats, last_beat_time, beat_i, beat_pc>>

poolVars == <<pool_tasks, pool_queue, pool_running, pool_future, pool_completion,
              pool_results, processed_files, pool_fs, pool_pc>>

morphVars == <<morph_frame1, morph_frame2, morph_progress, morph_result>>
wipeVars == <<wipe_size, wipe_center, wipe_frame1, wipe_frame2, wipe_progress,
              wipe_result, wipe_prev_progress, wipe_prev_result>>

reelsVars == <<input_dir_ok, input_dir, config, AI_AVAILABLE, image_files,
               clips_bound, clips, clip_mode, clip_idx, clip_errors, skipped,
               raised, final_clip, writer_calls, output_exists, output_existed,
               ret, progress_log, reels_pc>>

motionVars == <<motion_config, motion_effects, motion_duration, motion_k,
                motion_t, motion_frames, motion_pc>>

routerVars == <<user_input, intent, intermediate_steps, node>>

transVars == <<trans_clips, trans_style, trans_i, trans_direction,
               processed_clips, trans_frame, trans_pc>>

retimeVars == <<retime_clips, retime_beats, new_clips, retime_pc>>

durationVars == <<dur_base, dur_importance, dur_limits, dur_result, dur_pc>>

cropVars == <<crop_image, crop_target, focus_on, crop_region, crop_raised, crop_box, crop_pc>>

moodVars == <<mood_ai_content, mood>>

progressVars == <<prog_images, prog_config, prog_ai_available, prog_idx, prog_log, prog_pc>>

missionVars == <<mission_status, mission_hash, mission_type, mission_image,
                 mission_task, check_pc, check_req, check_evaluated,
                 check_response>>

jobVars == <<jobs, job_clock, job_call>>

tourVars == <<tour_input, tour_intent, tour_node, travel_state, tour_response,
              tour_error, tour_lookups, tour_visited>>

vars == <<easingVars, beatVars, poolVars, morphVars, wipeVars, reelsVars,
          motionVars, routerVars, transVars, retimeVars, durationVars,
          cropVars, moodVars, progressVars, missionVars, jobVars, tourVars>>

\* What an action of one part leaves alone: the other parts.
notEasing ==
    <<beatVars, poolVars, morphVars, wipeVars, reelsVars, motionVars,
      routerVars, transVars, retimeVars, durationVars, cropVars, moodVars,
      progressVars, missionVars, jobVars, tourVars>>
notBeats ==
    <<easingVars, poolVars, morphVars, wipeVars, reelsVars, motionVars,
      routerVars, transVars, retimeVars, durationVars, cropVars, moodVars,
      progressVars, missionVars, jobVars, tourVars>>
notPool ==
    <<easingVars, beatVars, morphVars, wipeVars, reelsVars, motionVars,
      routerVars, transVars, retimeVars, durationVars, cropVars, moodVars,
      progressVars, missionVars, jobVars, tourVars>>
notMorph ==
    <<easingVars, beatVars, poolVars, wipeVars, reelsVars, motionVars,
      routerVars, transVars, retimeVars, durationVars, cropVars, moodVars,
      progressVars, missionVars, jobVars, tourVars>>
notWipe ==
    <<easingVars, beatVars, poolVars, morphVars, reelsVars, motionVars,
      routerVars, transVars, retimeVars, durationVars, cropVars, moodVars,
      progressVars, missionVars, jobVars, tourVars>>
notMotion ==
    <<easingVars, beatVars, poolVars, morphVars, wipeVars, reelsVars,
      routerVars, transVars, retimeVars, durationVars, cropVars, moodVars,
      progressVars, missionVars, jobVars, tourVars>>
notRouter ==
    <<easingVars, beatVars, poolVars, morphVars, wipeVars, reelsVars,
      motionVars,
      transVars, retimeVars, durationVars, cropVars, moodVars, progressVars,
      missionVars, jobVars, tourVars>>
notTrans ==
    <<easingVars, beatVars, poolVars, morphVars, wipeVars, reelsVars,
      motionVars,
      routerVars, retimeVars, durationVars, cropVars, moodVars, progressVars,
      missionVars, jobVars, tourVars>>
notRetime ==
    <<easingVars, beatVars, poolVars, morphVars, wipeVars, reelsVars,
      motionVars, routerVars, transVars, durationVars, cropVars, moodVars,
      progressVars, missionVars, jobVars, tourVars>>
notDuration ==
    <<easingVars, beatVars, poolVars, morphVars, wipeVars, reelsVars,
      motionVars, routerVars, transVars, retimeVars, cropVars, moodVars,
      progressVars, missionVars, jobVars, tourVars>>
notCrop ==
    <<easingVars, beatVars, poolVars, morphVars, wipeVars, reelsVars,
      motionVars, routerVars, transVars, retimeVars, durationVars, moodVars,
      progressVars, missionVars, jobVars, tourVars>>
notMood ==
    <<easingVars, beatVars, poolVars, morphVars, wipeVars, reelsVars,
      motionVars, routerVars, transVars, retimeVars, durationVars, cropVars,
      progressVars, missionVars, jobVars, tourVars>>
notProgress ==
    <<easingVars, beatVars, poolVars, morphVars, wipeVars, reelsVars,
      motionVars, routerVars, transVars, retimeVars, durationVars, cropVars,
      moodVars, missionVars, jobVars, tourVars>>
notMission ==
    <<easingVars, beatVars, poolVars, morphVars, wipeVars, reelsVars,
      motionVars, routerVars, transVars, retimeVars, durationVars, cropVars,
      moodVars, progressVars, jobVars, tourVars>>
notJob ==
    <<easingVars, beatVars, poolVars, morphVars, wipeVars, reelsVars,
      motionVars, routerVars, transVars, retimeVars, durationVars, cropVars,
      moodVars, progressVars, missionVars, tourVars>>
notTour ==
    <<easingVars, beatVars, poolVars, morphVars, wipeVars, reelsVars,
      motionVars, routerVars, transVars, retimeVars, durationVars, cropVars,
      moodVars, progressVars, missionVars, jobVars>>
notReels ==
    <<easingVars, beatVars, poolVars, morphVars, wipeVars, motionVars,
      routerVars, transVars, retimeVars, durationVars, cropVars, moodVars,
      progressVars, missionVars, jobVars, tourVars>>

(***************************************************************************)
(* Exact rational arithmetic.                                              *)
(***************************************************************************)
Abs(x) == IF x < 0 THEN -x ELSE x

RECURSIVE GCD(_, _)
GCD(a, b) == IF b = 0 THEN a ELSE GCD(b, a % b)

\* The rational n/d in lowest terms with a positive denominator.
Rat(n, d) ==
    LET s == IF d < 0 THEN -1 ELSE 1
        g == GCD(Abs(n), Abs(d))
    IN  <<(s * n) \div g, (s * d) \div g>>

RInt(n) == <<n, 1>>

\* The least common denominator of two rationals in lowest terms.
LCD(a, b) == (a[2] \div GCD(a[2], b[2])) * b[2]

\* The numerator of a over the denominator l, a multiple of a's own.
NumOver(a, l) == a[1] * (l \div a[2])

RAdd(a, b) == LET l == LCD(a, b) IN Rat(NumOver(a, l) + NumOver(b, l), l)
RSub(a, b) == LET l == LCD(a, b) IN Rat(NumOver(a, l) - NumOver(b, l), l)
RMul(a, b) ==
    LET g1 == GCD(Abs(a[1]), b[2])
        g2 == GCD(Abs(b[1]), a[2])
    IN  Rat((a[1] \div g1) * (b[1] \div g2), (a[2] \div g2) * (b[2] \div g1))
RLt(a, b) == LET l == LCD(a, b) IN NumOver(a, l) < NumOver(b, l)
RLe(a, b) == LET l == LCD(a, b) IN NumOver(a, l) <= NumOver(b, l)
REq(a, b) == Rat(a[1], a[2]) = Rat(b[1], b[2])

\* Python's int(x): truncation toward zero.
PyInt(a) == IF a[1] >= 0 THEN a[1] \div a[2] ELSE -((-a[1]) \div a[2])

\* <<q, r>> with a * n = q * d + r and 0 <= r < d, for a >= 0, n >= 0 and
\* 0 < d < 2^30, by doubling, so that no intermediate value leaves 32 bits.
RECURSIVE MulDivQR(_, _, _)
MulDivQR(a, n, d) ==
    IF a = 0 THEN <<0, 0>>
    ELSE LET half == MulDivQR(a \div 2, n, d)
             c2 == IF 2 * half[2] >= d THEN 1 ELSE 0
             q2 == 2 * half[1] + c2
             r2 == 2 * half[2] - c2 * d
             r3 == IF a % 2 = 1 THEN r2 + (n % d) ELSE r2
             c3 == IF r3 >= d THEN 1 ELSE 0
         IN  <<q2 + (IF a % 2 = 1 THEN n \div d ELSE 0) + c3, r3 - c3 * d>>

\* int(a * x) for an integer a and a rational x.
IntTimes(a, x) ==
    LET q == MulDivQR(Abs(a), Abs(x[1]), x[2])[1]
    IN  IF (a < 0) = (x[1] < 0) THEN q ELSE -q

RECURSIVE RPow(_, _)
RPow(a, k) == IF k = 0 THEN RInt(1) ELSE RMul(a, RPow(a, k - 1))

\* 2^k for an integer k of either sign (math.pow(2, k)).
Pow2(k) == IF k >= 0 THEN RInt(2 ^ k) ELSE Rat(1, 2 ^ (-k))

(***************************************************************************)
(* math.cos and math.sin at whole degrees, to four decimals.  The easing   *)
(* functions are sampled at tenths of their domain, where every angle they *)
(* use is a whole number of degrees.                                       *)
(***************************************************************************)
CosTable ==
    <<10000, 9998, 9994, 9986, 9976, 9962, 9945, 9925, 9903, 9877, 9848,
      9816, 9781, 9744, 9703, 9659, 9613, 9563, 9511, 9455, 9397, 9336,
      9272, 9205, 9135, 9063, 8988, 8910, 8829, 8746, 8660, 8572, 8480,
      8387, 8290, 8192, 8090, 7986, 7880, 7771, 7660, 7547, 7431, 7314,
      7193, 7071, 6947, 6820, 6691, 6561, 6428, 6293, 6157, 6018, 5878,
      5736, 5592, 5446, 5299, 5150, 5000, 4848, 4695, 4540, 4384, 4226,
      4067, 3907, 3746, 3584, 3420, 3256, 3090, 2924, 2756, 2588, 2419,
      2250, 2079, 1908, 1736, 1564, 1392, 1219, 1045, 872, 698, 523, 349,
      175, 0>>

CosScale == CosTable[1]

Cos(deg) ==
    LET r == deg % 360
        v == IF r <= 90 THEN CosTable[r + 1]
             ELSE IF r <= 180 THEN -CosTable[180 - r + 1]
             ELSE IF r <= 270 THEN -CosTable[r - 180 + 1]
             ELSE CosTable[360 - r + 1]
    IN  Rat(v, CosScale)

Sin(deg) == Cos(deg - 90)

\* The sample points of an easing function's domain [0, 1]: k / EaseDen.
EaseDen == (Len(CosTable) - 1) \div 9
EaseGrid == 0 .. EaseDen
EaseT(k) == Rat(k, EaseDen)

(***************************************************************************)
(* easing_functions.py: the easing functions, at t = k / EaseDen.          *)
(***************************************************************************)
R1 == RInt(1)
R2 == RInt(2)
RHalf == Rat(1, 2)

linear(k) == EaseT(k)

ease_in_quad(k) == RMul(EaseT(k), EaseT(k))

\* ease_out_quad with the 2 of (2 - t) mistyped as 1.
ease_out_quad_slip(k) == RMul(EaseT(k), RSub(R1, EaseT(k)))

ease_out_quad(k) == RMul(EaseT(k), RSub(R2, EaseT(k)))

ease_in_out_quad(k) ==
    LET t == EaseT(k)
    IN  IF RLt(t, RHalf) THEN RMul(R2, RMul(t, t))
        ELSE RAdd(RInt(-1), RMul(RSub(RInt(4), RMul(R2, t)), t))

ease_in_cubic(k) == RPow(EaseT(k), 3)

ease_out_cubic(k) ==
    LET t == RSub(EaseT(k), R1)
    IN  RAdd(RPow(t, 3), R1)

ease_in_out_cubic(k) ==
    LET t == EaseT(k)
    IN  IF RLt(t, RHalf) THEN RMul(RInt(4), RPow(t, 3))
        ELSE LET u == RSub(RMul(R2, t), R2)
             IN  RMul(RAdd(RPow(u, 3), R2), RHalf)

ease_in_quart(k) == RPow(EaseT(k), 4)

ease_out_quart(k) ==
    LET t == RSub(EaseT(k), R1)
    IN  RSub(R1, RPow(t, 4))

ease_in_out_quart(k) ==
    LET t == EaseT(k)
    IN  IF RLt(t, RHalf) THEN RMul(RInt(8), RPow(t, 4))
        ELSE LET u == RSub(t, R1)
             IN  RSub(R1, RMul(RInt(8), RPow(u, 4)))

\* t * pi / 2 is 9k degrees, pi * t is 18k degrees.
ease_in_sine(k) == RSub(R1, Cos(9 * k))

ease_out_sine(k) == Sin(9 * k)

ease_in_out_sine(k) == RMul(RSub(R1, Cos(18 * k)), RHalf)

ease_in_expo(k) == IF k = 0 THEN RInt(0) ELSE Pow2(k - EaseDen)

ease_out_expo(k) == IF k = EaseDen THEN R1 ELSE RSub(R1, Pow2(-k))

ease_in_out_expo(k) ==
    IF k = 0 \/ k = EaseDen THEN EaseT(k)
    ELSE IF RLt(EaseT(k), RHalf) THEN RMul(Pow2(2 * k - 10), RHalf)
    ELSE RMul(RSub(R2, Pow2(10 - 2 * k)), RHalf)

\* c4 = 2 pi / 3 is 120 degrees: (10 t - 10.75) c4 is 120k - 1290 degrees.
ease_in_elastic(k) ==
    IF k = 0 \/ k = EaseDen THEN EaseT(k)
    ELSE RSub(RInt(0), RMul(Pow2(k - 10), Sin(120 * k - 1290)))

ease_out_elastic(k) ==
    IF k = 0 \/ k = EaseDen THEN EaseT(k)
    ELSE RAdd(RMul(Pow2(-k), Sin(120 * k - 90)), R1)

\* c5 = 2 pi / 4.5 is 80 degrees: (20 t - 11.125) c5 is 160k - 890 degrees.
ease_in_out_elastic(k) ==
    IF k = 0 \/ k = EaseDen THEN EaseT(k)
    ELSE IF RLt(EaseT(k), RHalf)
         THEN RSub(RInt(0), RMul(RMul(Pow2(2 * k - 10), Sin(160 * k - 890)), RHalf))
         ELSE RAdd(RMul(RMul(Pow2(10 - 2 * k), Sin(160 * k - 890)), RHalf), R1)

BackC1 == Rat(170158, 100000)

ease_out_back(k) ==
    LET c1 == BackC1
        c3 == RAdd(c1, R1)
        u  == RSub(EaseT(k), R1)
    IN  RAdd(RAdd(R1, RMul(c3, RPow(u, 3))), RMul(c1, RPow(u, 2)))

ease_in_out_back(k) ==
    LET c1 == BackC1
        c2 == RMul(c1, Rat(1525, 1000))
        t  == EaseT(k)
        t2 == RMul(R2, t)
    IN  IF RLt(t, RHalf)
        THEN RMul(RMul(RPow(t2, 2), RSub(RMul(RAdd(c2, R1), t2), c2)), RHalf)
        ELSE LET u == RSub(t2, R2)
             IN  RMul(RAdd(RMul(RPow(u, 2), RAdd(RMul(RAdd(c2, R1), u), c2)), R2),
                      RHalf)

\* EASING_FUNCTIONS: the registry, from a name to the function registered.
EASING_FUNCTIONS ==
    [n \in {"linear",
             "ease_in_quad", "ease_out_quad", "ease_in_out_quad",
             "ease_in_cubic", "ease_out_cubic", "ease_in_out_cubic",
             "ease_in_quart", "ease_out_quart", "ease_in_out_quart",
             "ease_in_sine", "ease_out_sine", "ease_in_out_sine",
             "ease_in_expo", "ease_out_expo", "ease_in_out_expo",
             "ease_in_elastic", "ease_out_elastic", "ease_in_out_elastic",
             "ease_out_back", "ease_in_out_back"} |-> n]

\* The functions of the module, by identity.
EasingFunctionSet == {EASING_FUNCTIONS[n] : n \in DOMAIN EASING_FUNCTIONS}

\* A call f(t) of the function f at t = k / EaseDen.
ApplyEasing(f, k) ==
    CASE f = "linear" -> linear(k)
      [] f = "ease_in_quad" -> ease_in_quad(k)
      [] f = "ease_out_quad" -> ease_out_quad(k)
      [] f = "ease_in_out_quad" -> ease_in_out_quad(k)
      [] f = "ease_in_cubic" -> ease_in_cubic(k)
      [] f = "ease_out_cubic" -> ease_out_cubic(k)
      [] f = "ease_in_out_cubic" -> ease_in_out_cubic(k)
      [] f = "ease_in_quart" -> ease_in_quart(k)
      [] f = "ease_out_quart" -> ease_out_quart(k)
      [] f = "ease_in_out_quart" -> ease_in_out_quart(k)
      [] f = "ease_in_sine" -> ease_in_sine(k)
      [] f = "ease_out_sine" -> ease_out_sine(k)
      [] f = "ease_in_out_sine" -> ease_in_out_sine(k)
      [] f = "ease_in_expo" -> ease_in_expo(k)
      [] f = "ease_out_expo" -> ease_out_expo(k)
      [] f = "ease_in_out_expo" -> ease_in_out_expo(k)
      [] f = "ease_in_elastic" -> ease_in_elastic(k)
      [] f = "ease_out_elastic" -> ease_out_elastic(k)
      [] f = "ease_in_out_elastic" -> ease_in_out_elastic(k)
      [] f = "ease_out_back" -> ease_out_back(k)
      [] f = "ease_in_out_back" -> ease_in_out_back(k)

\* get_easing_function with the default dropped: an unregistered name fails.
get_easing_function_nodefault(name) ==
    IF name \in DOMAIN EASING_FUNCTIONS THEN EASING_FUNCTIONS[name]
    ELSE "KeyError"

\* get_easing_function: EASING_FUNCTIONS.get(name, ease_in_out_cubic).
get_easing_function(name) ==
    IF name \in DOMAIN EASING_FUNCTIONS THEN EASING_FUNCTIONS[name]
    ELSE "ease_in_out_cubic"

\* Names a configuration may carry that the registry does not hold.
UnregisteredNames == {"ease_in_back", "bounce", "Linear", ""}

EasingNames == DOMAIN EASING_FUNCTIONS \cup UnregisteredNames

EasingStart ==
    /\ easing_name \in EasingNames
    /\ ease_t \in EaseGrid
    /\ easing_func = "unset"
    /\ ease_value = <<>>

EasingIdle ==
    /\ easing_name = ""
    /\ ease_t = 0
    /\ easing_func = "unset"
    /\ ease_value = <<>>

\* easing_func = get_easing_function(config.easing_function)
GetEasingFunction ==
    /\ easing_func = "unset"
    /\ easing_func' = get_easing_function(easing_name)
    /\ UNCHANGED <<easing_name, ease_t, ease_value, notEasing>>

\* easing_func(t)
CallEasing ==
    /\ easing_func \in EasingFunctionSet
    /\ ease_value = <<>>
    /\ ease_value' = ApplyEasing(easing_func, ease_t)
    /\ UNCHANGED <<easing_name, ease_t, easing_func, notEasing>>

EasingNext == GetEasingFunction \/ CallEasing

(***************************************************************************)
(* audio_sync.py: detect_beats, from the window energies on.               *)
(***************************************************************************)
MaxWindows == 7
MaxEnergy == 1

RECURSIVE SeqSum(_)
SeqSum(q) == IF q = <<>> THEN 0 ELSE Head(q) + SeqSum(Tail(q))

SeqSquares(q) == [j \in 1 .. Len(q) |-> q[j] * q[j]]

\* energy > np.mean(energies) + np.std(energies) * 1.5, without the root:
\* with n values of sum S and sum of squares Q, mean = S/n and
\* std^2 = (nQ - S^2)/n^2, so the test is  en > S  and
\* 4 (en - S)^2 > 9 (nQ - S^2).
AboveThreshold(e, q) ==
    LET n == Len(q)
        S == SeqSum(q)
        Q == SeqSum(SeqSquares(q))
    IN  /\ e * n > S
        /\ 4 * (e * n - S) * (e * n - S) > 9 * (n * Q - S * S)

\* The interval test with min_interval left out of it.
IntervalElapsed_any(time, last, mi) == RLe(RInt(0), RSub(RInt(time), last))

\* time - last_beat_time >= min_interval
IntervalElapsed(time, last, mi) == RLe(mi, RSub(RInt(time), last))

\* The values of min_interval tried, in ticks: 0.5 s (the default) is 10.
MinIntervals == {RInt(-1), RInt(0), Rat(1, 2), RInt(2), Rat(5, 2), RInt(10)}

EnergySeqs == UNION {[1 .. n -> 0 .. MaxEnergy] : n \in 0 .. MaxWindows}

BeatsStart ==
    /\ energies \in EnergySeqs
    /\ min_interval \in MinIntervals
    /\ beats = <<>>
    /\ last_beat_time = RSub(RInt(0), min_interval)
    /\ beat_i = 0
    /\ beat_pc = "loop"

BeatsIdle ==
    /\ energies = <<>>
    /\ min_interval = RInt(0)
    /\ beats = <<>>
    /\ last_beat_time = RInt(0)
    /\ beat_i = 0
    /\ beat_pc = "done"

\* One pass of  for i, energy in enumerate(energies).
BeatLoopStep ==
    /\ beat_pc = "loop"
    /\ beat_i < Len(energies)
    /\ LET energy == energies[beat_i + 1]
           time == beat_i
       IN  IF AboveThreshold(energy, energies)
              /\ IntervalElapsed(time, last_beat_time, min_interval)
           THEN /\ beats' = Append(beats, time)
                /\ last_beat_time' = RInt(time)
           ELSE UNCHANGED <<beats, last_beat_time>>
    /\ beat_i' = beat_i + 1
    /\ UNCHANGED <<energies, min_interval, beat_pc, notBeats>>

\* return beats
BeatsReturn ==
    /\ beat_pc = "loop"
    /\ beat_i = Len(energies)
    /\ beat_pc' = "done"
    /\ UNCHANGED <<energies, min_interval, beats, last_beat_time, beat_i, notBeats>>

\* The audio cannot be read: except Exception: return []
BeatsLoadFails ==
    /\ beat_pc = "loop"
    /\ beat_i = 0
    /\ beats' = <<>>
    /\ beat_pc' = "done"
    /\ UNCHANGED <<energies, min_interval, last_beat_time, beat_i, notBeats>>

BeatsNext == BeatLoopStep \/ BeatsReturn \/ BeatsLoadFails

(***************************************************************************)
(* reels_engine.py: _preprocess_images_parallel and preprocess_image_task. *)
(***************************************************************************)
MaxTasks == 5
MaxWorkers == 4

Workers == 1 .. MaxWorkers

\* A path of the input directory, and the path its processed copy is saved to:
\* output_dir / f"processed_{img_path.name}".
InputPath(name) == [dir |-> "input", name |-> name]
ProcessedPath(path) == [dir |-> "processed", name |-> path.name]

\* The input lists: n distinct names, in ascending or descending order.
TaskLists ==
    UNION {{[k \in 1 .. n |-> InputPath(k)], [k \in 1 .. n |-> InputPath(n + 1 - k)]} :
           n \in 0 .. MaxTasks}

\* A task that returns None when anything failed.
TaskResult_none(path, ok) ==
    IF ok THEN ProcessedPath(path) ELSE [dir |-> "none", name |-> path.name]

\* preprocess_image_task: the processed path when the image was saved, the
\* original path when anything failed.
TaskResult(path, ok) == IF ok THEN ProcessedPath(path) ELSE path

\* The results taken in the order the tasks finish (as_completed), not in
\* the order they were submitted.
ResultIndex_completed(collected, completion) ==
    IF collected < Len(completion) THEN completion[collected + 1] ELSE 0

\* executor.map yields the results in the order the tasks were submitted:
\* the next one is that of task collected + 1.
ResultIndex(collected, completion) == collected + 1

PoolStart ==
    /\ pool_tasks \in TaskLists
    /\ pool_queue = <<>>
    /\ pool_running = [w \in Workers |-> 0]
    /\ pool_future = [k \in 1 .. Len(pool_tasks) |-> <<>>]
    /\ pool_completion = <<>>
    /\ pool_results = <<>>
    /\ processed_files = <<>>
    /\ pool_fs = {pool_tasks[k] : k \in 1 .. Len(pool_tasks)}
    /\ pool_pc = "submit"

PoolIdle ==
    /\ pool_tasks = <<>>
    /\ pool_queue = <<>>
    /\ pool_running = [w \in Workers |-> 0]
    /\ pool_future = <<>>
    /\ pool_completion = <<>>
    /\ pool_results = <<>>
    /\ processed_files = <<>>
    /\ pool_fs = {}
    /\ pool_pc = "done"

\* The for loop filling tasks, and executor.map submitting every task.
PoolSubmit ==
    /\ pool_pc = "submit"
    /\ pool_queue' = [k \in 1 .. Len(pool_tasks) |-> k]
    /\ pool_pc' = "collect"
    /\ UNCHANGED <<pool_tasks, pool_running, pool_future, pool_completion,
                   pool_results, processed_files, pool_fs, notPool>>

\* An idle worker thread takes the first task of the queue.
WorkerTake(w) ==
    /\ pool_running[w] = 0
    /\ pool_queue # <<>>
    /\ pool_running' = [pool_running EXCEPT ![w] = Head(pool_queue)]
    /\ pool_queue' = Tail(pool_queue)
    /\ UNCHANGED <<pool_tasks, pool_future, pool_completion, pool_results,
                   processed_files, pool_fs, pool_pc, notPool>>

\* A worker thread ends preprocess_image_task, the image saved (ok) or not.
WorkerFinish(w, ok) ==
    /\ pool_running[w] # 0
    /\ LET k == pool_running[w]
           res == TaskResult(pool_tasks[k], ok)
       IN  /\ pool_future' = [pool_future EXCEPT ![k] = <<res>>]
           /\ pool_fs' = pool_fs \cup {res}
           /\ pool_completion' = Append(pool_completion, k)
    /\ pool_running' = [pool_running EXCEPT ![w] = 0]
    /\ UNCHANGED <<pool_tasks, pool_queue, pool_results, processed_files,
                   pool_pc, notPool>>

\* list(executor.map(...)) takes its next result, once that future is done.
PoolCollect ==
    /\ pool_pc = "collect"
    /\ Len(pool_results) < Len(pool_tasks)
    /\ LET k == ResultIndex(Len(pool_results), pool_completion)
       IN  /\ k \in 1 .. Len(pool_tasks)
           /\ pool_future[k] # <<>>
           /\ pool_results' = Append(pool_results, pool_future[k][1])
    /\ UNCHANGED <<pool_tasks, pool_queue, pool_running, pool_future,
                   pool_completion, processed_files, pool_fs, pool_pc, notPool>>

\* Every result is in: the with block ends.
PoolJoin ==
    /\ pool_pc = "collect"
    /\ Len(pool_results) = Len(pool_tasks)
    /\ pool_pc' = "filter"
    /\ UNCHANGED <<pool_tasks, pool_queue, pool_running, pool_future,
                   pool_completion, pool_results, processed_files, pool_fs, notPool>>

\* for res in results: if res and res.exists(): processed_files.append(res)
KeepExisting(results, fs) ==
    SelectSeq(results, LAMBDA res : res \in fs)

\* The loop over the results, and return processed_files.
PoolFilter ==
    /\ pool_pc = "filter"
    /\ processed_files' = KeepExisting(pool_results, pool_fs)
    /\ pool_pc' = "done"
    /\ UNCHANGED <<pool_tasks, pool_queue, pool_running, pool_future,
                   pool_completion, pool_results, pool_fs, notPool>>

PoolNext ==
    \/ PoolSubmit
    \/ \E w \in Workers : WorkerTake(w)
    \/ \E w \in Workers, ok \in BOOLEAN : WorkerFinish(w, ok)
    \/ PoolCollect
    \/ PoolJoin
    \/ PoolFilter

(***************************************************************************)
(* advanced_transitions.py: the morph blend and the circular wipe.         *)
(***************************************************************************)
ProgressDen == 4
MaxSample == 255

Progress(k) == Rat(k, ProgressDen)

\* The nearest integer, a tie going to the even one (cvRound).
RoundHalfEven(a) ==
    LET fl == a[1] \div a[2]
        twice == 2 * (a[1] - fl * a[2])
    IN  IF twice < a[2] THEN fl
        ELSE IF twice > a[2] THEN fl + 1
        ELSE IF fl % 2 = 0 THEN fl ELSE fl + 1

\* saturate_cast<uchar>
Saturate(v) == IF v < 0 THEN 0 ELSE IF v > MaxSample THEN MaxSample ELSE v

\* cv2.addWeighted(src1, alpha, src2, beta, 0) on 8-bit arrays.
AddWeighted(src1, alpha, src2, beta) ==
    [i \in DOMAIN src1 |->
        Saturate(RoundHalfEven(RAdd(RMul(RInt(src1[i]), alpha),
                                    RMul(RInt(src2[i]), beta))))]

\* The blend with the two weights exchanged.
apply_morph_transition_swapped(frame1, frame2, progress) ==
    AddWeighted(frame1, progress, frame2, RSub(R1, progress))

\* apply_morph_transition on 8-bit frames.
apply_morph_transition(frame1, frame2, progress) ==
    LET alpha == progress
    IN  AddWeighted(frame1, RSub(R1, alpha), frame2, alpha)

MorphStart ==
    /\ morph_frame1 \in [1 .. 1 -> 0 .. MaxSample]
    /\ morph_frame2 \in [1 .. 1 -> 0 .. MaxSample]
    /\ morph_progress \in 0 .. ProgressDen
    /\ morph_result = <<>>

MorphIdle ==
    /\ morph_frame1 = <<>>
    /\ morph_frame2 = <<>>
    /\ morph_progress = 0
    /\ morph_result = <<>>

\* return apply_morph_transition(frame1, frame2, progress)
MorphCall ==
    /\ morph_frame1 # <<>>
    /\ morph_result = <<>>
    /\ morph_result' =
           apply_morph_transition(morph_frame1, morph_frame2, Progress(morph_progress))
    /\ UNCHANGED <<morph_frame1, morph_frame2, morph_progress, notMorph>>

MorphNext == MorphCall

MaxWipeSide == 3

Pixels(size) == (0 .. size[1] - 1) \X (0 .. size[2] - 1)

\* The mask of the pixels farther from the center than the radius.
create_circular_mask_outside(size, center, w, h, k) ==
    {px \in Pixels(size) :
        4 * ProgressDen * ProgressDen
          * ((px[1] - center[1]) * (px[1] - center[1])
             + (px[2] - center[2]) * (px[2] - center[2]))
        >= (w * w + h * h) * k * k}

\* create_circular_mask, for the radius sqrt(w^2 + h^2) / 2 * k / ProgressDen:
\* the pixels with dist_from_center <= radius, both sides squared.
create_circular_mask(size, center, w, h, k) ==
    {px \in Pixels(size) :
        4 * ProgressDen * ProgressDen
          * ((px[1] - center[1]) * (px[1] - center[1])
             + (px[2] - center[2]) * (px[2] - center[2]))
        <= (w * w + h * h) * k * k}

\* apply_circular_wipe_transition: np.where(mask > 0, frame2, frame1).
apply_circular_wipe_transition(frame1, frame2, k, center, size) ==
    LET w == size[1]
        h == size[2]
        c == IF center = <<>> THEN <<w \div 2, h \div 2>> ELSE center
        mask == create_circular_mask(size, c, w, h, k)
    IN  [px \in Pixels(size) |-> IF px \in mask THEN frame2[px] ELSE frame1[px]]

WipeSizes == (1 .. MaxWipeSide) \X (1 .. MaxWipeSide)

WipeStart ==
    /\ wipe_size \in WipeSizes
    /\ wipe_center \in {<<>>} \cup Pixels(wipe_size)
    /\ \E a \in {0, MaxSample} :
          /\ wipe_frame1 = [px \in Pixels(wipe_size) |-> a]
          /\ wipe_frame2 = [px \in Pixels(wipe_size) |-> MaxSample - a]
    /\ wipe_progress = -1
    /\ wipe_result = <<>>
    /\ wipe_prev_progress = -1
    /\ wipe_prev_result = <<>>

WipeIdle ==
    /\ wipe_size = <<0, 0>>
    /\ wipe_center = <<>>
    /\ wipe_frame1 = <<>>
    /\ wipe_frame2 = <<>>
    /\ wipe_progress = -1
    /\ wipe_result = <<>>
    /\ wipe_prev_progress = -1
    /\ wipe_prev_result = <<>>

\* A call of apply_circular_wipe_transition at the progress k / ProgressDen.
WipeCall(k) ==
    /\ wipe_size # <<0, 0>>
    /\ wipe_prev_progress' = wipe_progress
    /\ wipe_prev_result' = wipe_result
    /\ wipe_progress' = k
    /\ wipe_result' = apply_circular_wipe_transition(
                          wipe_frame1, wipe_frame2, k, wipe_center, wipe_size)
    /\ UNCHANGED <<wipe_size, wipe_center, wipe_frame1, wipe_frame2, notWipe>>

WipeNext == \E k \in 0 .. ProgressDen : WipeCall(k)

(***************************************************************************)
(* reels_engine.py: ReelsEngine.generate_reels, from the directory listing *)
(* to the container writer.  Durations are exact rationals, in seconds.    *)
(***************************************************************************)
MaxFiles == 3

FileKinds == {"valid", "corrupt", "other"}

TransitionStyles ==
    {"fade", "slide", "zoom", "morph", "glitch", "circular", "page_curl"}

\* ReelsConfig(): the defaults of models.py, for the fields generate_reels reads.
DefaultConfig ==
    [duration_per_photo |-> 3,
     enable_transitions |-> TRUE,
     transition_style |-> "fade",
     sort_by_time |-> TRUE,
     enable_ai_analysis |-> FALSE,
     enable_svd |-> FALSE,
     enable_beat_sync |-> FALSE,
     background_music |-> "none"]

\* The configurations tried: the default one and those one setting away from it
\* (the music file: not set, set but missing, set and present).
Configs ==
    {DefaultConfig}
    \cup {[DefaultConfig EXCEPT !.duration_per_photo = d] : d \in {1, 2}}
    \cup {[DefaultConfig EXCEPT !.enable_transitions = FALSE]}
    \cup {[DefaultConfig EXCEPT !.transition_style = s] :
             s \in TransitionStyles \cup {"random"}}
    \cup {[DefaultConfig EXCEPT !.sort_by_time = FALSE]}
    \cup {[DefaultConfig EXCEPT !.enable_ai_analysis = TRUE]}
    \cup {[DefaultConfig EXCEPT !.enable_svd = TRUE]}
    \cup {[DefaultConfig EXCEPT !.enable_beat_sync = b, !.background_music = m] :
             b \in BOOLEAN, m \in {"none", "missing", "present"}}

\* What detect_beats may return for the music file, in seconds.
BeatLists ==
    {<<>>, <<RInt(4)>>, <<RInt(2), RInt(4)>>, <<Rat(1, 4), RInt(1), Rat(7, 2)>>}

SvdNumFrames == 25
SvdFps == 6
TransitionDuration == RHalf

\* A check that only looks at the extension.
validate_image_lenient(f) == f.kind \in {"valid", "corrupt"}

\* validate_image: Image.open and verify succeed.
validate_image(f) == f.kind = "valid"

\* f.is_file() and f.suffix.lower() in valid_extensions
IsImageFile(f) == f.kind # "other"

ByTime(a, b) == a.time < b.time
ByName(a, b) == a.name < b.name

\* sort_photos_by_time: by the EXIF date, else the modification time.
sort_photos_by_time(files) == SortSeq(files, ByTime)

FilterSeq(s, Keep(_)) == SelectSeq(s, Keep)

\* A validation that gives up on the whole batch at the first bad image.
ValidImages_all_or_nothing(files) ==
    IF \A i \in 1 .. Len(files) : validate_image(files[i]) THEN files ELSE <<>>

\* image_files = [f for f in image_files if validate_image(f)]
ValidImages(files) == FilterSeq(files, validate_image)

\* 30 + int((idx / len(image_files)) * 40)
ClipProgress(idx, n) == 30 + (idx * 40) \div n

\* _create_clip: ... clip.with_duration(self.config.duration_per_photo)
ImageClipOf(f, cfg) ==
    [source |-> f.name, kind |-> "image",
     duration |-> RInt(cfg.duration_per_photo), effects |-> <<>>]

\* VideoFileClip(video_output): svd_num_frames frames at svd_fps.
SvdClipOf(f) ==
    [source |-> f.name, kind |-> "svd",
     duration |-> Rat(SvdNumFrames, SvdFps), effects |-> <<>>]

\* A scan that takes the first beat after current_time, however close.
RECURSIVE NextBeatIndex_nomargin(_, _, _)
NextBeatIndex_nomargin(bts, beat_idx, current_time) ==
    IF beat_idx > Len(bts) THEN beat_idx
    ELSE IF RLt(current_time, bts[beat_idx]) THEN beat_idx
    ELSE NextBeatIndex_nomargin(bts, beat_idx + 1, current_time)

\* adjust_clips_to_beats: the  while beat_idx < len(beats)  scan.
RECURSIVE NextBeatIndex(_, _, _)
NextBeatIndex(bts, beat_idx, current_time) ==
    IF beat_idx > Len(bts) THEN beat_idx
    ELSE IF RLt(RAdd(current_time, RHalf), bts[beat_idx]) THEN beat_idx
    ELSE NextBeatIndex(bts, beat_idx + 1, current_time)

\* adjust_clips_to_beats: the  for i, clip in enumerate(clips)  loop.
RECURSIVE AdjustFrom(_, _, _, _, _)
AdjustFrom(cl, bts, i, current_time, beat_idx) ==
    IF i > Len(cl) THEN <<>>
    ELSE LET j == NextBeatIndex(bts, beat_idx, current_time)
             duration == IF j > Len(bts) \/ i = Len(cl)
                         THEN cl[i].duration
                         ELSE RSub(bts[j], current_time)
         IN  <<[cl[i] EXCEPT !.duration = duration]>>
             \o AdjustFrom(cl, bts, i + 1, RAdd(current_time, duration), j)

adjust_clips_to_beats(cl, bts) ==
    IF bts = <<>> THEN cl ELSE AdjustFrom(cl, bts, 1, RInt(0), 1)

\* _apply_transitions: what clip i (from 0) of n gets for a style.
TransitionEffects(style, i, n) ==
    LET first == IF i > 0
                 THEN CASE style = "fade" -> <<"FadeIn">>
                        [] style = "slide" -> <<"slide_in">>
                        [] style = "zoom" -> <<"zoom_in">>
                        [] style = "morph" -> <<"morph_effect">>
                        [] style = "glitch" -> <<"glitch_effect", "FadeIn">>
                        [] style = "circular" -> <<"circular_effect">>
                        [] style = "page_curl" -> <<"page_curl_effect">>
                 ELSE <<>>
        last == IF i < n - 1 /\ style \in {"fade", "slide", "zoom"}
                THEN <<"FadeOut">> ELSE <<>>
    IN  first \o last

\* _apply_transitions, styles[i] being the style used for clip i: no clip's
\* duration changes.
apply_transitions(cl, styles) ==
    IF Len(cl) <= 1 THEN cl
    ELSE [i \in 1 .. Len(cl) |->
            [cl[i] EXCEPT !.effects =
                @ \o TransitionEffects(styles[i], i - 1, Len(cl))]]

RECURSIVE SumDurations(_)
SumDurations(cl) ==
    IF cl = <<>> THEN RInt(0) ELSE RAdd(cl[1].duration, SumDurations(Tail(cl)))

\* concatenate_videoclips(clips, method="compose"): each clip starts where the
\* one before it ends; the length of the result.
concatenate_videoclips(cl) == SumDurations(cl)

ReelsStart ==
    /\ input_dir_ok \in BOOLEAN
    /\ \E n \in 0 .. MaxFiles, backwards \in BOOLEAN :
         \E kinds \in [1 .. n -> FileKinds] :
            input_dir = [i \in 1 .. n |->
                           [name |-> i,
                            time |-> IF backwards THEN n + 1 - i ELSE i,
                            kind |-> kinds[i]]]
    /\ config \in Configs
    /\ AI_AVAILABLE \in BOOLEAN
    /\ image_files = <<>>
    /\ clips_bound = FALSE
    /\ clips = <<>>
    /\ clip_mode = "image"
    /\ clip_idx = 0
    /\ clip_errors = 0
    /\ skipped = <<>>
    /\ raised = ""
    /\ final_clip = <<>>
    /\ writer_calls = 0
    /\ output_exists \in BOOLEAN
    /\ output_existed = output_exists
    /\ ret = "running"
    /\ progress_log = <<>>
    /\ reels_pc = "collect"

ReelsIdle ==
    /\ input_dir_ok = FALSE
    /\ input_dir = <<>>
    /\ config = DefaultConfig
    /\ AI_AVAILABLE = FALSE
    /\ image_files = <<>>
    /\ clips_bound = FALSE
    /\ clips = <<>>
    /\ clip_mode = "image"
    /\ clip_idx = 0
    /\ clip_errors = 0
    /\ skipped = <<>>
    /\ raised = ""
    /\ final_clip = <<>>
    /\ writer_calls = 0
    /\ output_exists = FALSE
    /\ output_existed = FALSE
    /\ ret = "idle"
    /\ progress_log = <<>>
    /\ reels_pc = "done"

reelsInputs == <<input_dir_ok, input_dir, config, AI_AVAILABLE, output_existed>>

\* return False, from a guard.
ReturnFalse ==
    /\ ret' = "False"
    /\ reels_pc' = "done"

\* The statements of generate_reels inside its  try  (lines 123-257).
TryBlock ==
    {"collect", "validate", "sort", "preprocess", "branch", "clips", "check",
     "beats", "transitions", "concat", "write"}

\* A  try  around the container writer only.
Caught_writer_only(stage) == stage = "write"

\* An exception raised at this stage is caught by  except Exception: the stage
\* is inside the  try.
Caught(stage) == stage \in TryBlock

\* A statement of a stage raises: caught, lines 258-262 return False, else the
\* exception leaves generate_reels.
Raise(stage) ==
    /\ raised' = stage
    /\ ret' = IF Caught(stage) THEN "False" ELSE "raised"
    /\ reels_pc' = "done"

\* Lines 125-136: list the directory, keep the image files.
CollectFiles ==
    /\ reels_pc = "collect"
    /\ progress_log' = Append(progress_log, 10)
    /\ IF ~input_dir_ok
       THEN ReturnFalse /\ UNCHANGED image_files
       ELSE LET found == FilterSeq(input_dir, IsImageFile)
            IN  /\ image_files' = found
                /\ IF found = <<>>
                   THEN ReturnFalse
                   ELSE reels_pc' = "validate" /\ UNCHANGED ret
    /\ UNCHANGED <<reelsInputs, skipped, raised, clips_bound, clips, clip_mode, clip_idx,
                   clip_errors, final_clip, writer_calls, output_exists, notReels>>

\* Lines 139-143: keep the files validate_image accepts.
ValidateFiles ==
    /\ reels_pc = "validate"
    /\ LET valid == ValidImages(image_files)
       IN  /\ image_files' = valid
           /\ IF valid = <<>>
              THEN ReturnFalse
              ELSE reels_pc' = "sort" /\ UNCHANGED ret
    /\ UNCHANGED <<reelsInputs, skipped, raised, clips_bound, clips, clip_mode, clip_idx,
                   clip_errors, final_clip, writer_calls, output_exists,
                   progress_log, notReels>>

\* Lines 146-150: by time, or by path.
SortFiles ==
    /\ reels_pc = "sort"
    /\ IF config.sort_by_time
       THEN /\ progress_log' = Append(progress_log, 20)
            /\ image_files' = sort_photos_by_time(image_files)
       ELSE /\ image_files' = SortSeq(image_files, ByName)
            /\ UNCHANGED progress_log
    /\ reels_pc' = "preprocess"
    /\ UNCHANGED <<reelsInputs, skipped, raised, clips_bound, clips, clip_mode, clip_idx,
                   clip_errors, final_clip, writer_calls, output_exists, ret,
                   notReels>>

\* Lines 155-159: _preprocess_images_parallel; an image whose preprocessing
\* fails keeps its own path, at its place.
PreprocessFiles ==
    /\ reels_pc = "preprocess"
    /\ progress_log' = Append(progress_log, 22)
    /\ \E failed \in SUBSET (1 .. Len(image_files)) :
          image_files' = [i \in 1 .. Len(image_files) |->
                            [image_files[i] EXCEPT !.kind =
                                IF i \in failed THEN "valid" ELSE "processed"]]
    /\ reels_pc' = "branch"
    /\ UNCHANGED <<reelsInputs, skipped, raised, clips_bound, clips, clip_mode, clip_idx,
                   clip_errors, final_clip, writer_calls, output_exists, ret,
                   notReels>>

\* Lines 162-176: the if / elif / elif / else chain.  Only its last two arms
\* bind  clips.
ChooseBuilder ==
    /\ reels_pc = "branch"
    /\ IF config.enable_ai_analysis /\ AI_AVAILABLE
       THEN /\ progress_log' = Append(progress_log, 25)
            /\ reels_pc' = "check"
            /\ UNCHANGED <<clips_bound, clip_mode>>
       ELSE IF config.enable_ai_analysis /\ ~AI_AVAILABLE
       THEN /\ reels_pc' = "check"
            /\ UNCHANGED <<progress_log, clips_bound, clip_mode>>
       ELSE IF config.enable_svd
       THEN /\ progress_log' = Append(progress_log, 30)
            /\ clips_bound' = TRUE
            \* SVDService() may fail: _create_clips_fallback
            /\ clip_mode' \in {"svd", "image"}
            /\ reels_pc' = "clips"
       ELSE /\ progress_log' = Append(progress_log, 30)
            /\ clips_bound' = TRUE
            /\ clip_mode' = "image"
            /\ reels_pc' = "clips"
    /\ UNCHANGED <<reelsInputs, skipped, raised, image_files, clips, clip_idx, clip_errors,
                   final_clip, writer_calls, output_exists, ret, notReels>>

\* The clip loop with a  try  that ends the loop at the first exception.
AppendClip_abort(cl, outcome, f, cfg) ==
    CASE outcome = "svd" -> Append(cl, SvdClipOf(f))
      [] outcome = "image" -> Append(cl, ImageClipOf(f, cfg))
      [] outcome = "error" -> <<>>

\* try: clips.append(clip)  except Exception: print(...), for the outcome of
\* building the clip of f.
AppendClip(cl, outcome, f, cfg) ==
    CASE outcome = "svd" -> Append(cl, SvdClipOf(f))
      [] outcome = "image" -> Append(cl, ImageClipOf(f, cfg))
      [] outcome = "error" -> cl

\* One pass of  for idx, img_file in enumerate(image_files): the clip, or the
\* exception that is caught and skips the image.
CreateClipStep ==
    /\ reels_pc = "clips"
    /\ clip_idx < Len(image_files)
    /\ progress_log' =
          Append(progress_log, ClipProgress(clip_idx, Len(image_files)))
    /\ LET f == image_files[clip_idx + 1]
       IN  \E outcome \in (IF clip_mode = "svd" THEN {"svd"} ELSE {})
                          \cup {"image", "error"} :
              /\ clips' = AppendClip(clips, outcome, f, config)
              /\ clip_errors' =
                    IF outcome = "error" THEN clip_errors + 1 ELSE clip_errors
              /\ skipped' =
                    IF outcome = "error" THEN Append(skipped, f.name) ELSE skipped
    /\ clip_idx' = clip_idx + 1
    /\ UNCHANGED <<reelsInputs, raised, image_files, clips_bound, clip_mode, final_clip,
                   writer_calls, output_exists, ret, reels_pc, notReels>>

\* Lines 192-194:  if not clips: return False.  An unbound  clips  raises
\* UnboundLocalError, and the  except  of generate_reels returns False.
CheckClips ==
    /\ \/ reels_pc = "check"
       \/ reels_pc = "clips" /\ clip_idx = Len(image_files)
    /\ IF ~clips_bound
       THEN Raise("check")
       ELSE /\ UNCHANGED raised
            /\ IF clips = <<>>
               THEN ReturnFalse
               ELSE reels_pc' = "beats" /\ UNCHANGED ret
    /\ UNCHANGED <<reelsInputs, skipped, image_files, clips_bound, clips, clip_mode,
                   clip_idx, clip_errors, final_clip, writer_calls,
                   output_exists, progress_log, notReels>>

\* Lines 197-207: beat sync, when enabled and the music file exists.
BeatSync ==
    /\ reels_pc = "beats"
    /\ IF config.enable_beat_sync /\ config.background_music = "present"
       THEN /\ progress_log' = Append(progress_log, 60)
            /\ \E bts \in BeatLists : clips' = adjust_clips_to_beats(clips, bts)
       ELSE UNCHANGED <<progress_log, clips>>
    /\ reels_pc' = "transitions"
    /\ UNCHANGED <<reelsInputs, skipped, raised, image_files, clips_bound, clip_mode, clip_idx,
                   clip_errors, final_clip, writer_calls, output_exists, ret,
                   notReels>>

\* Lines 210-212: _apply_transitions; the style "random" draws one per clip.
ApplyTransitions ==
    /\ reels_pc = "transitions"
    /\ IF config.enable_transitions
       THEN /\ progress_log' = Append(progress_log, 70)
            /\ \E styles \in [1 .. Len(clips) ->
                                IF config.transition_style = "random"
                                THEN TransitionStyles
                                ELSE {config.transition_style}] :
                  clips' = apply_transitions(clips, styles)
       ELSE UNCHANGED <<progress_log, clips>>
    /\ reels_pc' = "concat"
    /\ UNCHANGED <<reelsInputs, skipped, raised, image_files, clips_bound, clip_mode, clip_idx,
                   clip_errors, final_clip, writer_calls, output_exists, ret,
                   notReels>>

\* Lines 215-233: concatenate; ai_content and narration_audio_path are None
\* on every path that gets here; the music, when its file exists.
Concatenate ==
    /\ reels_pc = "concat"
    /\ final_clip' = concatenate_videoclips(clips)
    /\ progress_log' =
          progress_log \o <<80>>
          \o (IF config.background_music = "present" THEN <<88>> ELSE <<>>)
    /\ reels_pc' = "write"
    /\ UNCHANGED <<reelsInputs, skipped, raised, image_files, clips_bound, clips, clip_mode,
                   clip_idx, clip_errors, writer_calls, output_exists, ret,
                   notReels>>

\* Lines 236-256: write_videofile, then True; or it raises, and False.
WriteVideo ==
    /\ reels_pc = "write"
    /\ writer_calls' = writer_calls + 1
    /\ \E written \in BOOLEAN :
          IF written
          THEN /\ progress_log' = progress_log \o <<90, 100>>
               /\ output_exists' = TRUE
               /\ ret' = "True"
          ELSE /\ progress_log' = Append(progress_log, 90)
               /\ output_exists' \in {output_exists, TRUE}
               /\ ret' = "False"
    /\ reels_pc' = "done"
    /\ UNCHANGED <<reelsInputs, skipped, raised, image_files, clips_bound, clips, clip_mode,
                   clip_idx, clip_errors, final_clip, notReels>>

\* Lines 258-262: a statement of the stage the run is at raises (the progress
\* callback, a mkdir, the audio file, a moviepy call).  Line 192 raises only
\* for an unbound  clips: that is part of CheckClips.
ExceptHandler ==
    /\ ret = "running"
    /\ reels_pc \notin {"done", "check"}
    /\ Raise(reels_pc)
    /\ UNCHANGED <<reelsInputs, skipped, image_files, clips_bound, clips,
                   clip_mode, clip_idx, clip_errors, final_clip, writer_calls,
                   output_exists, progress_log, notReels>>

ReelsNext ==
    \/ ExceptHandler
    \/ CollectFiles
    \/ ValidateFiles
    \/ SortFiles
    \/ PreprocessFiles
    \/ ChooseBuilder
    \/ CreateClipStep
    \/ CheckClips
    \/ BeatSync
    \/ ApplyTransitions
    \/ Concatenate
    \/ WriteVideo

(***************************************************************************)
(* reels_engine.py and reels_engine_extensions.py: the motion effects of   *)
(* one clip.  _create_clip or create_enhanced_clip attaches them, beat     *)
(* sync may give the clip another duration, and a frame is rendered at a   *)
(* time t in [0, clip duration).  A frame is its size and the crop that    *)
(* made it.  The image has no EXIF date, so no text is laid over the clip. *)
(***************************************************************************)
TargetW == 1080
TargetH == 1920
MaxRenderK == 14

KenBurnsStyles ==
    {"zoom_in", "zoom_out", "pan_left", "pan_right", "pan_up", "pan_down",
     "diagonal"}

EnhancedStyles == {"zoom_in", "zoom_out", "pan_left", "pan_right", "diagonal"}

Directions == {"top_left", "top_right", "bottom_left", "bottom_right"}

\* ReelsConfig(): the defaults of models.py, for the fields the clip builders read.
DefaultMotionConfig ==
    [builder |-> "_create_clip",
     camera_style |-> "dynamic",
     enable_ken_burns |-> TRUE,
     enable_3d_rotation |-> FALSE,
     enable_circular_motion |-> FALSE,
     enable_zoom_pan_combo |-> FALSE,
     enable_handheld |-> FALSE,
     enable_rotation |-> FALSE,
     ken_burns_style |-> "random",
     effect_intensity |-> "medium",
     duration_per_photo |-> 3,
     easing_function |-> "ease_in_out_cubic",
     enable_adaptive_duration |-> FALSE]

\* After patch_reels_engine(): _create_clip is create_enhanced_clip.
EnhancedConfig == [DefaultMotionConfig EXCEPT !.builder = "create_enhanced_clip"]

MotionConfigs ==
    {DefaultMotionConfig, EnhancedConfig}
    \cup {[DefaultMotionConfig EXCEPT !.ken_burns_style = s] :
             s \in KenBurnsStyles \cup {"pan"}}
    \cup {[DefaultMotionConfig EXCEPT !.effect_intensity = x] :
             x \in {"low", "high", "extreme"}}
    \cup {[DefaultMotionConfig EXCEPT !.duration_per_photo = 1]}
    \cup {[DefaultMotionConfig EXCEPT !.camera_style = c, !.enable_ken_burns = b] :
             c \in {"basic", "dynamic", "cinematic"}, b \in BOOLEAN}
    \cup {[DefaultMotionConfig EXCEPT !.camera_style = c, !.enable_3d_rotation = TRUE] :
             c \in {"dynamic", "cinematic"}}
    \cup {[DefaultMotionConfig EXCEPT !.camera_style = c, !.enable_circular_motion = TRUE] :
             c \in {"dynamic", "cinematic"}}
    \cup {[DefaultMotionConfig EXCEPT !.camera_style = c, !.enable_zoom_pan_combo = TRUE] :
             c \in {"dynamic", "cinematic"}}
    \cup {[DefaultMotionConfig EXCEPT !.enable_handheld = TRUE],
          [DefaultMotionConfig EXCEPT !.enable_rotation = TRUE],
          [DefaultMotionConfig EXCEPT !.enable_ken_burns = FALSE,
                                      !.enable_handheld = TRUE]}
    \cup {[EnhancedConfig EXCEPT !.easing_function = f] :
             f \in {"linear", "ease_in_quart", "ease_in_sine", "bounce"}}
    \cup {[EnhancedConfig EXCEPT !.easing_function = f, !.ken_burns_style = s] :
             f \in {"ease_out_back", "ease_out_elastic"},
             s \in {"zoom_in", "zoom_out", "diagonal"}}
    \cup {[EnhancedConfig EXCEPT !.ken_burns_style = s, !.enable_adaptive_duration = a] :
             s \in {"zoom_out", "pan_left"}, a \in BOOLEAN}
    \cup {[EnhancedConfig EXCEPT !.enable_adaptive_duration = TRUE],
          [EnhancedConfig EXCEPT !.enable_ken_burns = FALSE,
                                 !.enable_rotation = TRUE]}

\* analyze_image_importance returns a score in [0.5, 1].
Importances == {Rat(1, 2), Rat(3, 4), RInt(1)}

\* The durations beat sync may give a clip: next_beat - current_time.
RetimeDurations == {RInt(1), RInt(4)}

\* random.randint(-shake_amount, shake_amount): the ends and the middle.
ShakeAmount == 5
Shakes == {-ShakeAmount, 0, ShakeAmount}

Min(a, b) == IF a <= b THEN a ELSE b
Max(a, b) == IF a >= b THEN a ELSE b
RMin(a, b) == IF RLe(a, b) THEN a ELSE b
RMax(a, b) == IF RLe(a, b) THEN b ELSE a

\* intensity_map.get(effect_intensity, 0.15) of the Ken Burns effects.
KenBurnsIntensity(cfg) ==
    CASE cfg.effect_intensity = "low" -> Rat(5, 100)
      [] cfg.effect_intensity = "medium" -> Rat(15, 100)
      [] cfg.effect_intensity = "high" -> Rat(30, 100)
      [] OTHER -> Rat(15, 100)

\* intensity_map.get(effect_intensity, 0.2) of _apply_zoom_pan_combo.
ComboIntensity(cfg) ==
    CASE cfg.effect_intensity = "low" -> Rat(1, 10)
      [] cfg.effect_intensity = "medium" -> Rat(2, 10)
      [] cfg.effect_intensity = "high" -> Rat(3, 10)
      [] OTHER -> Rat(2, 10)

\* adjust_duration_by_importance(base, importance, 2, 6)
adjust_duration_by_importance(base_duration, importance, min_duration, max_duration) ==
    LET adjusted == RAdd(RInt(base_duration),
                         RMul(RSub(importance, RHalf), RInt(2)))
    IN  PyInt(RMax(RInt(min_duration), RMin(adjusted, RInt(max_duration))))

\* A frame: PIL's crop returns the size of the box asked for; a resize to an
\* empty size, or a box turned inside out, raises.
Frame(ok, left, top, right, bottom, new_w, new_h) ==
    [ok |-> ok /\ right >= left /\ bottom >= top,
     w |-> right - left, h |-> bottom - top,
     left |-> left, top |-> top, right |-> right, bottom |-> bottom,
     new_w |-> new_w, new_h |-> new_h]

\* The frame of the clip before any effect: the image, cover-scaled and
\* center-cropped to the target size.
BaseFrame == Frame(TRUE, 0, 0, TargetW, TargetH, TargetW, TargetH)

\* resize to int(w * zoom) x int(h * zoom), then the centred w x h crop.
ZoomFrame(in, zoom) ==
    LET new_h == IntTimes(in.h, zoom)
        new_w == IntTimes(in.w, zoom)
        left == (new_w - in.w) \div 2
        top == (new_h - in.h) \div 2
    IN  Frame(in.ok /\ new_w > 0 /\ new_h > 0,
              left, top, left + in.w, top + in.h, new_w, new_h)

\* clip.resized(lambda t: scale): the frame the effect gets.
Scaled(in, scale) ==
    [in EXCEPT !.w = PyInt(RMul(RInt(in.w), scale)),
               !.h = PyInt(RMul(RInt(in.h), scale))]

\* _apply_ken_burns, the four pan styles.
PanFrame(in, style, intensity, progress) ==
    LET pan_amount == IF style \in {"pan_left", "pan_right"}
                      THEN PyInt(RMul(RInt(in.w), intensity))
                      ELSE PyInt(RMul(RInt(in.h), intensity))
        s == Scaled(in, RAdd(R1, intensity))
        w == s.w
        h == s.h
        offset_x == CASE style = "pan_left" ->
                           PyInt(RMul(RInt(pan_amount), RSub(R1, progress)))
                      [] style = "pan_right" ->
                           PyInt(RMul(RInt(pan_amount), progress))
                      [] OTHER -> 0
        offset_y == CASE style = "pan_up" ->
                           PyInt(RMul(RInt(pan_amount), RSub(R1, progress)))
                      [] style = "pan_down" ->
                           PyInt(RMul(RInt(pan_amount), progress))
                      [] OTHER -> 0
        right0 == offset_x + TargetW
        bottom0 == offset_y + TargetH
        right == IF right0 > w THEN w ELSE right0
        left1 == IF right0 > w THEN w - TargetW ELSE offset_x
        bottom == IF bottom0 > h THEN h ELSE bottom0
        top1 == IF bottom0 > h THEN h - TargetH ELSE offset_y
        left == IF left1 < 0 THEN 0 ELSE left1
        top == IF top1 < 0 THEN 0 ELSE top1
    IN  Frame(in.ok, left, top, right, bottom, w, h)

\* The diagonal style: zoom in, and a crop that travels between corners.
DiagonalFrame(in, direction, intensity, progress) ==
    LET zoom == RAdd(R1, RMul(progress, intensity))
        new_h == IntTimes(in.h, zoom)
        new_w == IntTimes(in.w, zoom)
        back == RSub(R1, progress)
        left == IntTimes(new_w - TargetW,
                         IF direction \in {"top_left", "bottom_left"}
                         THEN back ELSE progress)
        top == IntTimes(new_h - TargetH,
                        IF direction \in {"top_left", "top_right"}
                        THEN back ELSE progress)
    IN  Frame(in.ok /\ new_w > 0 /\ new_h > 0,
              left, top, left + TargetW, top + TargetH, new_w, new_h)

\* _apply_ken_burns: the frame at progress = t / duration_per_photo.
KenBurnsFrame(in, e, progress) ==
    CASE e.style = "zoom_in" ->
           ZoomFrame(in, RAdd(R1, RMul(progress, e.intensity)))
      [] e.style = "zoom_out" ->
           ZoomFrame(in, RSub(RAdd(R1, e.intensity), RMul(progress, e.intensity)))
      [] e.style \in {"pan_left", "pan_right", "pan_up", "pan_down"} ->
           PanFrame(in, e.style, e.intensity, progress)
      [] e.style = "diagonal" ->
           DiagonalFrame(in, e.direction, e.intensity, progress)
      [] OTHER -> ZoomFrame(in, RAdd(R1, RMul(progress, Rat(1, 10))))

\* apply_enhanced_ken_burns: progress = easing_func(t / duration).
EnhancedKenBurnsFrame(in, e, k) ==
    LET progress == ApplyEasing(e.easing, k)
    IN  CASE e.style = "zoom_in" ->
               ZoomFrame(in, RAdd(R1, RMul(progress, e.intensity)))
          [] e.style = "zoom_out" ->
               ZoomFrame(in, RSub(RAdd(R1, e.intensity),
                                  RMul(progress, e.intensity)))
          [] e.style = "diagonal" ->
               DiagonalFrame(in, e.direction, e.intensity, progress)

\* _apply_3d_rotation: the image squeezed to int(w * scale_factor) columns
\* and pasted on a black frame of the size it had.
Rotation3dFrame(in, e, k) ==
    LET sine == Sin(18 * k)
        abs_angle == RMul(RInt(15), IF sine[1] < 0 THEN RSub(RInt(0), sine) ELSE sine)
        scale_factor == RSub(R1, RMul(abs_angle, Rat(1, 100)))
        new_w == PyInt(RMul(RInt(in.w), scale_factor))
        left == (in.w - new_w) \div 2
    IN  Frame(in.ok /\ (new_w > 0 => left >= 0 /\ left + new_w <= in.w),
              0, 0, in.w, in.h, new_w, in.h)

\* _apply_circular_motion: radius 50 on the frame scaled by 1.2.
CircularFrame(in, k) ==
    LET s == Scaled(in, Rat(12, 10))
        offset_x == PyInt(RMul(RInt(50), Cos(36 * k)))
        offset_y == PyInt(RMul(RInt(50), Sin(36 * k)))
        center_x == s.w \div 2 + offset_x
        center_y == s.h \div 2 + offset_y
        left0 == Max(0, center_x - TargetW \div 2)
        top0 == Max(0, center_y - TargetH \div 2)
        right == Min(s.w, left0 + TargetW)
        bottom == Min(s.h, top0 + TargetH)
        left == IF right - left0 < TargetW THEN Max(0, right - TargetW) ELSE left0
        top == IF bottom - top0 < TargetH THEN Max(0, bottom - TargetH) ELSE top0
    IN  Frame(in.ok, left, top, left + TargetW, top + TargetH, s.w, s.h)

\* _apply_zoom_pan_combo
ZoomPanComboFrame(in, e, progress) ==
    LET zoom == IF e.zoom_direction = "in"
                THEN RAdd(R1, RMul(progress, e.intensity))
                ELSE RSub(RAdd(R1, e.intensity), RMul(progress, e.intensity))
        new_h == PyInt(RMul(RInt(in.h), zoom))
        new_w == PyInt(RMul(RInt(in.w), zoom))
        pan_amount == PyInt(RMul(RInt(Min(new_w - TargetW, new_h - TargetH)),
                                 Rat(3, 10)))
        back == RSub(R1, progress)
        left0 == CASE e.direction = "left" -> PyInt(RMul(RInt(pan_amount), back))
                   [] e.direction = "right" -> PyInt(RMul(RInt(pan_amount), progress))
                   [] OTHER -> (new_w - TargetW) \div 2
        top0 == CASE e.direction = "up" -> PyInt(RMul(RInt(pan_amount), back))
                  [] e.direction = "down" -> PyInt(RMul(RInt(pan_amount), progress))
                  [] OTHER -> (new_h - TargetH) \div 2
        left == Max(0, Min(left0, new_w - TargetW))
        top == Max(0, Min(top0, new_h - TargetH))
    IN  Frame(in.ok /\ new_w > 0 /\ new_h > 0,
              left, top, left + TargetW, top + TargetH, new_w, new_h)

\* _apply_handheld: a random offset of the crop on the frame scaled by 1.05.
HandheldFrame(in, shake) ==
    LET s == Scaled(in, Rat(105, 100))
        center_x == s.w \div 2 + shake[1]
        center_y == s.h \div 2 + shake[2]
        left == Max(0, Min(center_x - TargetW \div 2, s.w - TargetW))
        top == Max(0, Min(center_y - TargetH \div 2, s.h - TargetH))
    IN  Frame(in.ok, left, top, left + TargetW, top + TargetH, s.w, s.h)

\* clip.rotated(..., expand=False): the frame keeps its size.
RotationFrame(in) == Frame(in.ok, 0, 0, in.w, in.h, in.w, in.h)

\* The frame one attached effect makes of the frame below it.  k / EaseDen is
\* the time over the duration the motion effect captured.
EffectFrame(in, e, k, shake) ==
    CASE e.fn = "_apply_ken_burns" -> KenBurnsFrame(in, e, EaseT(k))
      [] e.fn = "apply_enhanced_ken_burns" -> EnhancedKenBurnsFrame(in, e, k)
      [] e.fn = "_apply_3d_rotation" -> Rotation3dFrame(in, e, k)
      [] e.fn = "_apply_circular_motion" -> CircularFrame(in, k)
      [] e.fn = "_apply_zoom_pan_combo" -> ZoomPanComboFrame(in, e, EaseT(k))
      [] e.fn = "_apply_handheld" -> HandheldFrame(in, shake)
      [] e.fn = "_apply_rotation" -> RotationFrame(in)

\* get_frame(t) through the attached effects, innermost first: the frame
\* each of them returns.
RECURSIVE RenderFrames(_, _, _, _)
RenderFrames(in, effects, k, shake) ==
    IF effects = <<>> THEN <<>>
    ELSE LET out == EffectFrame(in, Head(effects), k, shake)
         IN  <<out>> \o RenderFrames(out, Tail(effects), k, shake)

Effect(fn, style, direction, zoom_direction, cfg, duration) ==
    [fn |-> fn, style |-> style, direction |-> direction,
     zoom_direction |-> zoom_direction,
     intensity |-> IF fn = "_apply_zoom_pan_combo"
                   THEN ComboIntensity(cfg) ELSE KenBurnsIntensity(cfg),
     easing |-> get_easing_function(cfg.easing_function),
     duration |-> duration]

\* _apply_ken_burns: the effects it may attach (random.choice of the style
\* and of the diagonal's direction).
KenBurnsEffects(cfg) ==
    LET styles == IF cfg.ken_burns_style = "random"
                  THEN KenBurnsStyles ELSE {cfg.ken_burns_style}
        d == RInt(cfg.duration_per_photo)
    IN  {Effect("_apply_ken_burns", s, "none", "none", cfg, d) :
            s \in styles \ {"diagonal"}}
        \cup (IF "diagonal" \in styles
              THEN {Effect("_apply_ken_burns", "diagonal", dir, "none", cfg, d) :
                       dir \in Directions}
              ELSE {})

\* apply_enhanced_ken_burns on a clip of the given duration: its own three
\* styles, else _apply_ken_burns, which reads ken_burns_style again.
EnhancedKenBurnsEffects(cfg, clip_duration) ==
    LET styles == IF cfg.ken_burns_style = "random"
                  THEN EnhancedStyles ELSE {cfg.ken_burns_style}
    IN  {Effect("apply_enhanced_ken_burns", s, "none", "none", cfg, clip_duration) :
            s \in styles \cap {"zoom_in", "zoom_out"}}
        \cup (IF "diagonal" \in styles
              THEN {Effect("apply_enhanced_ken_burns", "diagonal", dir, "none",
                           cfg, clip_duration) : dir \in Directions}
              ELSE {})
        \cup (IF styles \ {"zoom_in", "zoom_out", "diagonal"} # {}
              THEN KenBurnsEffects(cfg) ELSE {})

Rotation3dEffects(cfg) ==
    {Effect("_apply_3d_rotation", "none", "none", "none", cfg,
            RInt(cfg.duration_per_photo))}

CircularEffects(cfg) ==
    {Effect("_apply_circular_motion", "none", "none", "none", cfg,
            RInt(cfg.duration_per_photo))}

ZoomPanComboEffects(cfg) ==
    {Effect("_apply_zoom_pan_combo", "none", pan, zoom, cfg,
            RInt(cfg.duration_per_photo)) :
        pan \in {"left", "right", "up", "down"}, zoom \in {"in", "out"}}

HandheldEffect(cfg) ==
    Effect("_apply_handheld", "none", "none", "none", cfg,
           RInt(cfg.duration_per_photo))

RotationEffect(cfg) ==
    Effect("_apply_rotation", "none", "none", "none", cfg,
           RInt(cfg.duration_per_photo))

\* _apply_camera_effects: the motion effect chosen by camera_style, as a set
\* of sequences of at most one effect.
CameraMotion(cfg) ==
    LET one(S) == {<<e>> : e \in S}
    IN  IF cfg.camera_style = "cinematic"
        THEN IF cfg.enable_3d_rotation THEN one(Rotation3dEffects(cfg))
             ELSE IF cfg.enable_circular_motion THEN one(CircularEffects(cfg))
             ELSE IF cfg.enable_zoom_pan_combo THEN one(ZoomPanComboEffects(cfg))
             ELSE one(KenBurnsEffects(cfg))
        ELSE IF cfg.camera_style = "dynamic"
        THEN LET effects ==
                   (IF cfg.enable_ken_burns THEN KenBurnsEffects(cfg) ELSE {})
                   \cup (IF cfg.enable_3d_rotation THEN Rotation3dEffects(cfg) ELSE {})
                   \cup (IF cfg.enable_circular_motion THEN CircularEffects(cfg) ELSE {})
                   \cup (IF cfg.enable_zoom_pan_combo
                         THEN ZoomPanComboEffects(cfg) ELSE {})
             IN  IF effects # {} THEN one(effects) ELSE {<<>>}
        ELSE IF cfg.enable_ken_burns THEN one(KenBurnsEffects(cfg)) ELSE {<<>>}

\* _apply_camera_effects: the motion effect, then handheld, then rotation.
apply_camera_effects(cfg) ==
    {m \o (IF cfg.enable_handheld THEN <<HandheldEffect(cfg)>> ELSE <<>>)
       \o (IF cfg.enable_rotation THEN <<RotationEffect(cfg)>> ELSE <<>>) :
        m \in CameraMotion(cfg)}

\* create_enhanced_clip, after the duration is set: the enhanced Ken Burns
\* effect, then rotation.
enhanced_effects(cfg, clip_duration) ==
    {m \o (IF cfg.enable_rotation THEN <<RotationEffect(cfg)>> ELSE <<>>) :
        m \in IF cfg.enable_ken_burns
              THEN {<<e>> : e \in EnhancedKenBurnsEffects(cfg, clip_duration)}
              ELSE {<<>>}}

MotionStart ==
    /\ motion_config \in MotionConfigs
    /\ motion_effects = <<>>
    /\ motion_duration = RInt(0)
    /\ motion_k = 0
    /\ motion_t = RInt(0)
    /\ motion_frames = <<>>
    /\ motion_pc = "create"

MotionIdle ==
    /\ motion_config = DefaultMotionConfig
    /\ motion_effects = <<>>
    /\ motion_duration = RInt(0)
    /\ motion_k = 0
    /\ motion_t = RInt(0)
    /\ motion_frames = <<>>
    /\ motion_pc = "idle"

\* ReelsEngine._create_clip: the camera effects, then
\* with_duration(duration_per_photo).
CreateClip ==
    /\ motion_pc = "create"
    /\ motion_config.builder = "_create_clip"
    /\ motion_effects' \in apply_camera_effects(motion_config)
    /\ motion_duration' = RInt(motion_config.duration_per_photo)
    /\ motion_pc' = "built"
    /\ UNCHANGED <<motion_config, motion_k, motion_t, motion_frames, notMotion>>

\* create_enhanced_clip: the duration first (adapted to the importance when
\* enabled, duration_per_photo when the analysis raises), then the effects.
CreateEnhancedClip ==
    /\ motion_pc = "create"
    /\ motion_config.builder = "create_enhanced_clip"
    /\ \E importance \in Importances, analysed \in BOOLEAN :
          LET duration ==
                 IF motion_config.enable_adaptive_duration /\ analysed
                 THEN RInt(adjust_duration_by_importance(
                              motion_config.duration_per_photo, importance, 2, 6))
                 ELSE RInt(motion_config.duration_per_photo)
          IN  /\ motion_duration' = duration
              /\ motion_effects' \in enhanced_effects(motion_config, duration)
    /\ motion_pc' = "built"
    /\ UNCHANGED <<motion_config, motion_k, motion_t, motion_frames, notMotion>>

\* adjust_clips_to_beats: clip.with_duration(next_beat - current_time); the
\* effects stay as they were attached.
RetimeClip ==
    /\ motion_pc = "built"
    /\ \E duration \in RetimeDurations : motion_duration' = duration
    /\ motion_pc' = "retimed"
    /\ UNCHANGED <<motion_config, motion_effects, motion_k, motion_t,
                   motion_frames, notMotion>>

\* The duration the motion effect divides t by.
MotionEffectDuration ==
    IF motion_effects = <<>> THEN RInt(motion_config.duration_per_photo)
    ELSE motion_effects[1].duration

\* get_frame(t) at t = k / EaseDen of that duration, for a t in [0, duration
\* of the clip).  No frame depends on the frames rendered before it: one
\* frame is rendered.
RenderFrame(k) ==
    /\ motion_pc \in {"built", "retimed"}
    /\ LET t == RMul(EaseT(k), MotionEffectDuration)
       IN  /\ RLt(t, motion_duration)
           /\ motion_t' = t
    /\ motion_k' = k
    /\ \E shake \in Shakes \X Shakes :
          motion_frames' = RenderFrames(BaseFrame, motion_effects, k, shake)
    /\ motion_pc' = "rendered"
    /\ UNCHANGED <<motion_config, motion_effects, motion_duration, notMotion>>

MotionNext ==
    \/ CreateClip
    \/ CreateEnhancedClip
    \/ RetimeClip
    \/ \E k \in 0 .. MaxRenderK : RenderFrame(k)

(***************************************************************************)
(* agents/langgraph_workflow.py: the tour-agent workflow, from run() to    *)
(* END.  A text is the sequence of its characters: a Hangul syllable is    *)
(* written in Latin letters ("cheot" is the syllable of  첫), an English   *)
(* word is one character ("Winter"), " " is the space.                     *)
(***************************************************************************)
MaxPhrases == 3

\* keyword in user_input: the keyword is a run of consecutive characters.
Contains(text, keyword) ==
    \E i \in 1 .. Len(text) - Len(keyword) + 1 :
        SubSeq(text, i, i + Len(keyword) - 1) = keyword

\* any(keyword in user_input for keyword in [...])
ContainsAny(text, keywords) == \E k \in keywords : Contains(text, k)

\* str.lower(): Hangul has no case.
LowerChar(c) ==
    CASE c = "Spring" -> "spring"
      [] c = "Winter" -> "winter"
      [] c = "Sunset" -> "sunset"
      [] c = "City" -> "city"
      [] OTHER -> c

Lower(text) == [i \in 1 .. Len(text) |-> LowerChar(text[i])]

\* The keyword lists of router_node, in the order it tries them.
SeasonKeywords ==
    {<<"bom">>, <<"yeo", "reum">>, <<"ga", "eul">>, <<"gyeo", "ul">>,
     <<"spring">>, <<"summer">>, <<"fall">>, <<"autumn">>, <<"winter">>}

TimeKeywords ==
    {<<"a", "chim">>, <<"o", "hu">>, <<"jeo", "nyeok">>, <<"bam">>,
     <<"ya", "gyeong">>, <<"il", "chul">>, <<"seok", "yang">>,
     <<"ya", "si", "jang">>}

SearchKeywords ==
    {<<"chaj", "a", "jwo">>, <<"geom", "saek">>, <<"chu", "cheon">>,
     <<"al", "lyeo", "jwo">>, <<"bo", "yeo", "jwo">>, <<"myeong", "so">>,
     <<"gwan", "gwang", "ji">>, <<"yeo", "haeng", "ji">>}

DetailKeywords ==
    {<<"sang", "se">>, <<"ja", "se", "hi">>, <<"jeong", "bo">>, <<"eo", "ttae">>}

NearbyKeywords == {<<"ju", "byeon">>, <<"geun", "cheo">>, <<"ga", "kka", "un">>}

OrdinalKeywords == {<<"cheot">>, <<"du">>, <<"se">>, <<"beon", "jjae">>}

\* router_node: the intent it finds for a user input.
router_intent(input) ==
    LET text == Lower(input)
    IN  IF ContainsAny(text, SeasonKeywords) THEN "season_recommend"
        ELSE IF ContainsAny(text, TimeKeywords) THEN "time_recommend"
        ELSE IF ContainsAny(text, SearchKeywords) THEN "search"
        ELSE IF ContainsAny(text, DetailKeywords) THEN "detail"
        ELSE IF ContainsAny(text, NearbyKeywords) THEN "nearby"
        ELSE IF ContainsAny(text, OrdinalKeywords)
        THEN IF Contains(text, <<"ju", "byeon">>)
                \/ Contains(text, <<"geun", "cheo">>)
             THEN "nearby"
             ELSE "detail"
        ELSE "unknown"

\* The phrases the user inputs tried are made of: a region and a word with no
\* keyword in it, ordinals, detail, nearby and search words, seasons, times.
Phrases ==
    {<<"seo", "ul">>, <<"mat", "jip">>,
     <<"cheot", " ", "beon", "jjae">>, <<"du", " ", "beon", "jjae">>,
     <<"sang", "se">>, <<"ja", "se", "hi">>, <<"jeong", "bo">>, <<"eo", "ttae">>,
     <<"ju", "byeon">>, <<"geun", "cheo">>, <<"ga", "kka", "un">>,
     <<"chaj", "a", "jwo">>, <<"al", "lyeo", "jwo">>, <<"gwan", "gwang", "ji">>,
     <<"chu", "cheon">>,
     <<"bom">>, <<"Winter">>, <<"ya", "gyeong">>}

\* The phrases of a list, with a space between two of them.
RECURSIVE Join(_)
Join(phrases) ==
    IF phrases = <<>> THEN <<>>
    ELSE IF Len(phrases) = 1 THEN phrases[1]
    ELSE phrases[1] \o <<" ">> \o Join(Tail(phrases))

UserInputs ==
    {Join(p) : p \in UNION {[1 .. n -> Phrases] : n \in 0 .. MaxPhrases}}

\* The nodes the conditional edge of the router leads to.
Handlers ==
    {"search", "detail", "nearby", "season_recommend", "time_recommend",
     "unknown"}

\* LandmarkWorkflow.run: the initial state, at the entry point.
RouterStart ==
    /\ user_input \in UserInputs
    /\ intent = ""
    /\ intermediate_steps = <<>>
    /\ node = "router"

RouterIdle ==
    /\ user_input = <<>>
    /\ intent = ""
    /\ intermediate_steps = <<>>
    /\ node = "idle"

\* router_node, then the conditional edge route_by_intent.
RouterNode ==
    /\ node = "router"
    /\ intent' = router_intent(user_input)
    /\ intermediate_steps' = Append(intermediate_steps, intent')
    /\ node' = intent'
    /\ UNCHANGED <<user_input, notRouter>>

\* The handler node runs (what it answers is left out), and its edge leads to
\* END.
HandlerNode ==
    /\ node \in Handlers
    /\ node' = "END"
    /\ UNCHANGED <<user_input, intent, intermediate_steps, notRouter>>

RouterNext == RouterNode \/ HandlerNode

(***************************************************************************)
(* reels_engine.py: ReelsEngine._apply_transitions and the frames of the   *)
(* clips it returns.  The effect functions it defines in its loop are      *)
(* closures: they read the loop's  i  and  direction  when a frame is      *)
(* rendered, which moviepy does after the method has returned.  A frame is *)
(* described by what was done to clip j's own frame at t.                  *)
(***************************************************************************)
MaxClips == 3

\* Frames are rendered at multiples of 1 / TicksPerSecond seconds.
TicksPerSecond == 4

\* The durations of the clips handed in: duration_per_photo, or what beat sync
\* made of it.
ClipDurations == {Rat(3, 4), RInt(1), RInt(2)}

SlideDirections == {"left", "right", "top", "bottom"}
PageCurlDirections == {"left", "right", "up", "down"}

\* The styles whose effect composites the frame of another clip.
TwoFrameEffects == {"morph_effect", "circular_effect", "page_curl_effect"}

\* moviepy FadeIn(duration): the weight of the clip's frame at t.
FadeInFading(t) ==
    IF RLe(TransitionDuration, t) THEN R1
    ELSE RMul(t, RInt(2))

\* moviepy FadeOut(duration) on a clip of duration d: the weight of the clip's
\* frame at t.
FadeOutFading(t, d) ==
    IF RLe(TransitionDuration, RSub(d, t)) THEN R1
    ELSE RMul(RSub(d, t), RInt(2))

\* clip j's own frame at t, with nothing done to it.
OwnFrame(j, t) ==
    [clip |-> j, t |-> t, effect |-> "none", progress |-> R1, prev |-> -1,
     direction |-> "", fade_in |-> R1, fade_out |-> R1]

\* One of the functions defined in the loop, called for clip j at t while the
\* loop variables are i and direction:  if t < transition_duration  it makes
\* its frame, from  clips[i-1]  for the two-frame styles, else it returns
\* get_frame(t).
CallLoopEffect(effect, frame, i, direction) ==
    IF RLt(frame.t, TransitionDuration)
    THEN [frame EXCEPT
            !.effect = effect,
            !.progress = IF effect = "glitch_effect"
                         THEN RSub(R1, RMul(frame.t, RInt(2)))
                         ELSE RMul(frame.t, RInt(2)),
            !.prev = IF effect \in TwoFrameEffects THEN i - 1 ELSE -1,
            !.direction = IF effect \in {"slide_in", "page_curl_effect"}
                          THEN direction ELSE ""]
    ELSE frame

\* One effect of a processed clip applied to the frame under it.
ApplyEffect(effect, frame, d, i, direction) ==
    CASE effect = "FadeIn" -> [frame EXCEPT !.fade_in = FadeInFading(frame.t)]
      [] effect = "FadeOut" ->
            [frame EXCEPT !.fade_out = FadeOutFading(frame.t, d)]
      [] OTHER -> CallLoopEffect(effect, frame, i, direction)

\* processed_clips[j].get_frame(t): the effects, innermost first.
RECURSIVE ProcessedFrame(_, _, _, _, _, _)
ProcessedFrame(effects, j, t, d, i, direction) ==
    IF effects = <<>> THEN OwnFrame(j, t)
    ELSE ApplyEffect(effects[Len(effects)],
                     ProcessedFrame(SubSeq(effects, 1, Len(effects) - 1),
                                    j, t, d, i, direction),
                     d, i, direction)

TransStart ==
    /\ \E n \in 1 .. MaxClips : trans_clips \in [1 .. n -> ClipDurations]
    /\ trans_style \in TransitionStyles \cup {"random"}
    /\ trans_i = -1
    /\ trans_direction = ""
    /\ processed_clips = <<>>
    /\ trans_frame = <<>>
    /\ trans_pc = "loop"

TransIdle ==
    /\ trans_clips = <<>>
    /\ trans_style = "fade"
    /\ trans_i = -1
    /\ trans_direction = ""
    /\ processed_clips = <<>>
    /\ trans_frame = <<>>
    /\ trans_pc = "idle"

\* if len(clips) <= 1: return clips
TransReturnAsIs ==
    /\ trans_pc = "loop"
    /\ Len(trans_clips) <= 1
    /\ processed_clips' = [j \in 1 .. Len(trans_clips) |-> <<>>]
    /\ trans_pc' = "returned"
    /\ UNCHANGED <<trans_clips, trans_style, trans_i, trans_direction,
                   trans_frame, notTrans>>

\* One pass of  for i, clip in enumerate(clips): the style, the direction
\* drawn for slide and page_curl, the effects the clip gets.
TransLoopStep ==
    /\ trans_pc = "loop"
    /\ Len(trans_clips) > 1
    /\ Len(processed_clips) < Len(trans_clips)
    /\ LET i == Len(processed_clips)
       IN  \E current_style \in (IF trans_style = "random"
                                 THEN TransitionStyles ELSE {trans_style}) :
              /\ trans_i' = i
              /\ trans_direction' \in
                    IF i > 0 /\ current_style = "slide" THEN SlideDirections
                    ELSE IF i > 0 /\ current_style = "page_curl"
                    THEN PageCurlDirections
                    ELSE {trans_direction}
              /\ processed_clips' =
                    Append(processed_clips,
                           TransitionEffects(current_style, i, Len(trans_clips)))
    /\ UNCHANGED <<trans_clips, trans_style, trans_frame, trans_pc, notTrans>>

\* return processed_clips
TransReturn ==
    /\ trans_pc = "loop"
    /\ Len(trans_clips) > 1
    /\ Len(processed_clips) = Len(trans_clips)
    /\ trans_pc' = "returned"
    /\ UNCHANGED <<trans_clips, trans_style, trans_i, trans_direction,
                   processed_clips, trans_frame, notTrans>>

\* After the method has returned, moviepy renders the frame of processed
\* clip j (from 0) at k ticks, inside the clip.
RenderTransitionFrame(j, k) ==
    /\ trans_pc = "returned"
    /\ j < Len(processed_clips)
    /\ RLt(Rat(k, TicksPerSecond), trans_clips[j + 1])
    /\ trans_frame' =
          <<ProcessedFrame(processed_clips[j + 1], j, Rat(k, TicksPerSecond),
                           trans_clips[j + 1], trans_i, trans_direction)>>
    /\ UNCHANGED <<trans_clips, trans_style, trans_i, trans_direction,
                   processed_clips, trans_pc, notTrans>>

TransNext ==
    \/ TransReturnAsIs
    \/ TransLoopStep
    \/ TransReturn
    \/ \E j \in 0 .. MaxClips - 1, k \in 0 .. 2 * TicksPerSecond :
          RenderTransitionFrame(j, k)

(***************************************************************************)
(* audio_sync.py, adjust_clips_to_beats, called on its own: any list of    *)
(* clips, and any list of beats detect_beats can return (increasing).      *)
(***************************************************************************)
MaxRetimeClips == 3

ClipDurationsIn == {RHalf, RInt(1), RInt(3)}
BeatTimes == {Rat(1, 4), RInt(1), Rat(3, 2), Rat(7, 2), RInt(4)}

\* The strictly increasing lists over a set of times.
IncreasingLists(S) ==
    {l \in UNION {[1 .. n -> S] : n \in 0 .. Cardinality(S)} :
        \A j \in 1 .. Len(l) - 1 : RLt(l[j], l[j + 1])}

RetimeStart ==
    /\ \E n \in 0 .. MaxRetimeClips :
          \E ds \in [1 .. n -> ClipDurationsIn] :
             retime_clips = [i \in 1 .. n |-> [source |-> i, duration |-> ds[i]]]
    /\ retime_beats \in IncreasingLists(BeatTimes)
    /\ new_clips = <<>>
    /\ retime_pc = "call"

RetimeIdle ==
    /\ retime_clips = <<>>
    /\ retime_beats = <<>>
    /\ new_clips = <<>>
    /\ retime_pc = "idle"

\* adjust_clips_to_beats(clips, beats, total_duration), to its return.
AdjustClipsToBeats ==
    /\ retime_pc = "call"
    /\ new_clips' = adjust_clips_to_beats(retime_clips, retime_beats)
    /\ retime_pc' = "returned"
    /\ UNCHANGED <<retime_clips, retime_beats, notRetime>>

RetimeNext == AdjustClipsToBeats

(***************************************************************************)
(* face_detection.py, adjust_duration_by_importance, called on its own:    *)
(* base_duration over the range ReelsConfig allows for duration_per_photo. *)
(***************************************************************************)
MaxBaseDuration == 10

\* What analyze_image_importance may return: min(max(importance, 0.5), 1.0).
ImportanceScores == {Rat(k, 8) : k \in 4 .. 8}

\* <<min_duration, max_duration>>: the defaults, which create_enhanced_clip
\* passes too, and two other ranges.
DurationLimits == {<<2, 6>>, <<1, 10>>, <<4, 5>>}

DurationStart ==
    /\ dur_base \in 1 .. MaxBaseDuration
    /\ dur_importance \in ImportanceScores
    /\ dur_limits \in DurationLimits
    /\ dur_result = -1
    /\ dur_pc = "call"

DurationIdle ==
    /\ dur_base = 1
    /\ dur_importance = RHalf
    /\ dur_limits = <<2, 6>>
    /\ dur_result = -1
    /\ dur_pc = "idle"

\* adjust_duration_by_importance(base_duration, importance, min_duration,
\* max_duration), to its return.
AdjustDuration ==
    /\ dur_pc = "call"
    /\ dur_result' = adjust_duration_by_importance(
                         dur_base, dur_importance, dur_limits[1], dur_limits[2])
    /\ dur_pc' = "returned"
    /\ UNCHANGED <<dur_base, dur_importance, dur_limits, notDuration>>

DurationNext == AdjustDuration

(***************************************************************************)
(* Python's float: an IEEE-754 double, a 53-bit mantissa m and an exponent *)
(* e standing for m * 2^e.  A mantissa is a natural number written in      *)
(* digits of base Limb, lowest first, so that no step leaves 32 bits.      *)
(***************************************************************************)
Limb == 32768
MantissaBits == 53

RECURSIVE TwoTo(_)
TwoTo(k) == IF k = 0 THEN 1 ELSE 2 * TwoTo(k - 1)

RECURSIVE BitLength(_)
BitLength(n) == IF n = 0 THEN 0 ELSE 1 + BitLength(n \div 2)

\* x * n + carry, for 0 <= n <= Limb.
RECURSIVE BigMulSmall(_, _, _)
BigMulSmall(x, n, carry) ==
    IF x = <<>>
    THEN IF carry = 0 THEN <<>>
         ELSE <<carry % Limb>> \o BigMulSmall(<<>>, n, carry \div Limb)
    ELSE LET cur == Head(x) * n + carry
         IN  <<cur % Limb>> \o BigMulSmall(Tail(x), n, cur \div Limb)

\* <<x \div n, x % n>>, for 0 < n <= Limb.
RECURSIVE BigDivSmall(_, _)
BigDivSmall(x, n) ==
    IF x = <<>> THEN <<<<>>, 0>>
    ELSE LET rest == BigDivSmall(Tail(x), n)
             cur == rest[2] * Limb + Head(x)
         IN  <<<<cur \div n>> \o rest[1], cur % n>>

\* x without its leading zero digits.
RECURSIVE BigTrim(_)
BigTrim(x) ==
    IF x = <<>> \/ x[Len(x)] # 0 THEN x ELSE BigTrim(SubSeq(x, 1, Len(x) - 1))

BigBits(x) ==
    LET y == BigTrim(x)
    IN  IF y = <<>> THEN 0 ELSE 15 * (Len(y) - 1) + BitLength(y[Len(y)])

RECURSIVE BigToInt(_)
BigToInt(x) == IF x = <<>> THEN 0 ELSE Head(x) + Limb * BigToInt(Tail(x))

\* x * 2^k
RECURSIVE BigShiftLeft(_, _)
BigShiftLeft(x, k) ==
    IF k = 0 THEN x
    ELSE IF k >= 15 THEN <<0>> \o BigShiftLeft(x, k - 15)
    ELSE BigMulSmall(x, TwoTo(k), 0)

\* <<x \div 2^k, whether a one was shifted out>>
RECURSIVE BigShiftRight(_, _)
BigShiftRight(x, k) ==
    IF k = 0 \/ x = <<>> THEN <<x, FALSE>>
    ELSE IF k >= 15
         THEN LET rest == BigShiftRight(Tail(x), k - 15)
              IN  <<rest[1], rest[2] \/ Head(x) # 0>>
    ELSE LET qr == BigDivSmall(x, TwoTo(k))
         IN  <<qr[1], qr[2] # 0>>

\* The double nearest to x * 2^e (sticky: x stands for a little more than
\* itself), ties to the even mantissa.
RoundToDouble(x, e, sticky) ==
    LET k == BigBits(x) - MantissaBits
    IN  IF k <= 0 THEN [m |-> BigTrim(x), e |-> e]
        ELSE LET above == BigShiftRight(x, k - 1)
                 halved == BigDivSmall(above[1], 2)
                 odd == halved[1] # <<>> /\ Head(halved[1]) % 2 = 1
                 up == halved[2] = 1 /\ (above[2] \/ sticky \/ odd)
             IN  [m |-> BigTrim(IF up THEN BigMulSmall(halved[1], 1, 1)
                                ELSE halved[1]),
                  e |-> e + k]

\* a / b in Python, for two positive ints below Limb.
FloatDiv(a, b) ==
    LET qr == BigDivSmall(BigShiftLeft(<<a>>, 75), b)
    IN  RoundToDouble(qr[1], -75, qr[2] # 0)

\* n * x in Python, for an int 0 <= n <= Limb and a float x.
FloatMulInt(n, x) == RoundToDouble(BigMulSmall(x.m, n, 0), x.e, FALSE)

\* int(x) in Python, for a float 0 <= x < 2^31.
FloatInt(x) ==
    IF x.e >= 0 THEN BigToInt(BigShiftLeft(x.m, x.e))
    ELSE BigToInt(BigShiftRight(x.m, -x.e)[1])

(***************************************************************************)
(* face_detection.py, FaceDetector.get_smart_crop_region, and the smart    *)
(* crop of create_enhanced_clip that calls it.                             *)
(***************************************************************************)
\* <<img_w, img_h>> of the images tried.
ImageSizes ==
    {<<1280, 854>>, <<4032, 3024>>, <<3024, 4032>>, <<1080, 1920>>,
     <<1000, 1000>>, <<101, 180>>}

\* <<target_w, target_h>>: engine.target_size, and a smaller 9:16 size.
TargetSizes == {<<TargetW, TargetH>>, <<720, 1280>>}

\* The boxes (x, y, w, h) detect_faces may return in an image of a size: a
\* small one in the top left corner, a larger one in the bottom right
\* corner, one around the middle.
FaceBoxes(size) ==
    {<<0, 0, 40, 40>>,
     <<size[1] - 80, size[2] - 80, 80, 80>>,
     <<size[1] \div 2 - 30, size[2] \div 2 - 30, 60, 60>>}

MaxFaces == 2

FaceLists(size) ==
    {l \in UNION {[1 .. n -> FaceBoxes(size)] : n \in 0 .. MaxFaces} :
        \A i, j \in DOMAIN l : i # j => l[i] # l[j]}

\* scale = max(target_w / img_w, target_h / img_h), a float.
CoverScale(size, target) ==
    IF target[1] * size[2] >= target[2] * size[1]
    THEN FloatDiv(target[1], size[1]) ELSE FloatDiv(target[2], size[2])

\* (new_w, new_h) = (int(img_w * scale), int(img_h * scale))
CoverSize(size, target) ==
    LET scale == CoverScale(size, target)
    IN  <<FloatInt(FloatMulInt(size[1], scale)),
          FloatInt(FloatMulInt(size[2], scale))>>

\* max(faces, key=lambda f: f[2] * f[3]): the first of the largest.
LargestFace(faces) ==
    faces[CHOOSE i \in DOMAIN faces :
             /\ \A j \in DOMAIN faces : faces[j][3] * faces[j][4] <= faces[i][3] * faces[i][4]
             /\ \A j \in 1 .. i - 1 : faces[j][3] * faces[j][4] < faces[i][3] * faces[i][4]]

\* get_focus_point: the centre of the largest face, else of the image.
get_focus_point(faces, size) ==
    IF faces # <<>>
    THEN LET f == LargestFace(faces)
         IN  <<f[1] + f[3] \div 2, f[2] + f[4] \div 2>>
    ELSE <<size[1] \div 2, size[2] \div 2>>

\* The center crop of target size in an image of size new.
CenterCropRegion(new, target) ==
    LET left == (new[1] - target[1]) \div 2
        top == (new[2] - target[2]) \div 2
    IN  <<left, top, left + target[1], top + target[2]>>

\* get_smart_crop_region, the body of its try for an image that opened.
SmartCropRegion(img, target, focus_on_faces) ==
    LET scale == CoverScale(img.size, target)
        new == CoverSize(img.size, target)
        focus_point == get_focus_point(img.faces, img.size)
        focus_x == FloatInt(FloatMulInt(focus_point[1], scale))
        focus_y == FloatInt(FloatMulInt(focus_point[2], scale))
        left0 == Max(0, focus_x - target[1] \div 2)
        top0 == Max(0, focus_y - target[2] \div 2)
        left == IF left0 + target[1] > new[1] THEN new[1] - target[1] ELSE left0
        top == IF top0 + target[2] > new[2] THEN new[2] - target[2] ELSE top0
    IN  IF focus_on_faces
        THEN <<left, top, left + target[1], top + target[2]>>
        ELSE CenterCropRegion(new, target)

CropStart ==
    /\ \E size \in ImageSizes, opens \in BOOLEAN :
          \E faces \in FaceLists(size) :
             crop_image = [size |-> size, opens |-> opens, faces |-> faces]
    /\ crop_target \in TargetSizes
    /\ focus_on \in BOOLEAN
    /\ crop_region = <<>>
    /\ crop_raised = FALSE
    /\ crop_box = <<>>
    /\ crop_pc = "call"

CropIdle ==
    /\ crop_image = [size |-> <<1080, 1920>>, opens |-> TRUE, faces |-> <<>>]
    /\ crop_target = <<TargetW, TargetH>>
    /\ focus_on = TRUE
    /\ crop_region = <<>>
    /\ crop_raised = FALSE
    /\ crop_box = <<>>
    /\ crop_pc = "idle"

\* get_smart_crop_region.  When Image.open raises, the handler reads new_w,
\* which is not bound yet: the handler raises in its turn.
GetSmartCropRegion ==
    /\ crop_pc = "call"
    /\ IF crop_image.opens
       THEN /\ crop_region' = SmartCropRegion(crop_image, crop_target, focus_on)
            /\ crop_raised' = FALSE
       ELSE /\ crop_raised' = TRUE
            /\ UNCHANGED crop_region
    /\ crop_pc' = "returned"
    /\ UNCHANGED <<crop_image, crop_target, focus_on, crop_box, notCrop>>

\* create_enhanced_clip, lines 54-81: the box the clip is cropped to, the
\* region returned or, when the call raised, the center crop.
CropClip ==
    /\ crop_pc = "returned"
    /\ crop_box' = IF crop_raised
                   THEN CenterCropRegion(CoverSize(crop_image.size, crop_target),
                                         crop_target)
                   ELSE crop_region
    /\ crop_pc' = "cropped"
    /\ UNCHANGED <<crop_image, crop_target, focus_on, crop_region, crop_raised,
                   notCrop>>

CropNext ==
    \/ GetSmartCropRegion
    \/ CropClip

(***************************************************************************)
(* color_grading.py, ColorGrading.detect_mood_from_ai_analysis.  A text is *)
(* a sequence of characters as in the workflow: here a run of Latin        *)
(* letters that is never split by a keyword is written as one character    *)
(* ("g", "old", "en" spell golden), a Hangul syllable in Latin letters.    *)
(***************************************************************************)
MaxMoodWords == 2

\* The keys of PRESETS.
PRESETS == {"sunset", "ocean", "forest", "city", "vintage", "dramatic", "soft",
            "neutral"}

\* The keyword list of each branch of the if / elif chain.
MoodKeywords(m) ==
    CASE m = "sunset" ->
           {<<"sunset">>, <<"il", "mol">>, <<"jeo", "nyeok">>, <<"no", "eul">>,
            <<"g", "old", "en", " ", "hour">>}
      [] m = "ocean" ->
           {<<"ocean">>, <<"sea">>, <<"beach">>, <<"ba", "da">>,
            <<"hae", "byeon">>, <<"mul">>}
      [] m = "forest" ->
           {<<"forest">>, <<"nature">>, <<"green">>, <<"sup">>, <<"ja", "yeon">>,
            <<"na", "mu">>}
      [] m = "city" ->
           {<<"city">>, <<"urban">>, <<"building">>, <<"do", "si">>,
            <<"geon", "mul">>, <<"geo", "ri">>}
      [] m = "vintage" ->
           {<<"vintage">>, <<"retro">>, <<"old">>, <<"bin", "ti", "ji">>,
            <<"bok", "go">>, <<"yet", "nal">>}
      [] m = "dramatic" ->
           {<<"dramatic">>, <<"intense">>, <<"strong">>,
            <<"deu", "ra", "ma", "tik">>, <<"gang", "ryeol">>, <<"yeok", "dong">>}
      [] m = "soft" ->
           {<<"soft">>, <<"gentle">>, <<"calm">>, <<"bu", "deu", "reo", "un">>,
            <<"cha", "bun">>, <<"pyeong", "hwa">>}

\* The if / elif chain on the lowered text.
MoodOf(text) ==
    IF ContainsAny(text, MoodKeywords("sunset")) THEN "sunset"
    ELSE IF ContainsAny(text, MoodKeywords("ocean")) THEN "ocean"
    ELSE IF ContainsAny(text, MoodKeywords("forest")) THEN "forest"
    ELSE IF ContainsAny(text, MoodKeywords("city")) THEN "city"
    ELSE IF ContainsAny(text, MoodKeywords("vintage")) THEN "vintage"
    ELSE IF ContainsAny(text, MoodKeywords("dramatic")) THEN "dramatic"
    ELSE IF ContainsAny(text, MoodKeywords("soft")) THEN "soft"
    ELSE "neutral"

\* A detection that compares the text as it is written.
detect_mood_case_sensitive(ai) ==
    IF ai.kind # "analysis" THEN "neutral" ELSE MoodOf(ai.analysis)

detect_mood_from_ai_analysis(ai) ==
    IF ai.kind # "analysis" THEN "neutral" ELSE MoodOf(Lower(ai.analysis))

\* Words of an analysis text.
MoodWords ==
    {<<"Sunset">>, <<"g", "old", "en", " ", "hour">>, <<"g", "old">>,
     <<"sea", "son">>, <<"beach">>, <<"forest">>, <<"City">>, <<"retro">>,
     <<"strong">>, <<"calm">>, <<"photo">>,
     <<"no", "eul">>, <<"ba", "da">>, <<"geon", "mul">>, <<"sup">>,
     <<"sa", "jin">>}

\* ai_content: None, {}, a dict without "analysis", a dict with it.
AiContents ==
    {[kind |-> k, analysis |-> <<>>] : k \in {"None", "empty", "no_analysis"}}
    \cup {[kind |-> "analysis", analysis |-> Join(p)] :
             p \in UNION {[1 .. n -> MoodWords] : n \in 0 .. MaxMoodWords}}

MoodStart ==
    /\ mood_ai_content \in AiContents
    /\ mood = ""

MoodIdle ==
    /\ mood_ai_content = [kind |-> "None", analysis |-> <<>>]
    /\ mood = "idle"

DetectMood ==
    /\ mood = ""
    /\ mood' = detect_mood_from_ai_analysis(mood_ai_content)
    /\ UNCHANGED <<mood_ai_content, notMood>>

MoodNext == DetectMood

(***************************************************************************)
(* reels_engine.py, generate_reels once more, for the values it passes to  *)
(* _update_progress only: the images are counted, not told apart, so that  *)
(* more of them fit.                                                       *)
(***************************************************************************)
MaxImages == 6

\* The fields of ReelsConfig that decide which progress calls are made.
ProgressConfigs ==
    [sort_by_time : BOOLEAN, enable_ai_analysis : BOOLEAN, enable_svd : BOOLEAN,
     enable_beat_sync : BOOLEAN, enable_transitions : BOOLEAN,
     background_music : {"none", "missing", "present"}]

ProgressStart ==
    /\ prog_images \in 1 .. MaxImages
    /\ prog_config \in ProgressConfigs
    /\ prog_ai_available \in BOOLEAN
    /\ prog_idx = 0
    /\ prog_log = <<>>
    /\ prog_pc = "collect"

ProgressIdle ==
    /\ prog_images = 1
    /\ prog_config = [sort_by_time |-> TRUE, enable_ai_analysis |-> FALSE,
                      enable_svd |-> FALSE, enable_beat_sync |-> FALSE,
                      enable_transitions |-> TRUE, background_music |-> "none"]
    /\ prog_ai_available = FALSE
    /\ prog_idx = 0
    /\ prog_log = <<>>
    /\ prog_pc = "idle"

\* _update_progress(progress_callback, progress, message)
UpdateProgress(progress) == prog_log' = Append(prog_log, progress)

ProgUnchanged == UNCHANGED <<prog_images, prog_config, prog_ai_available, notProgress>>

\* Lines 125-150: collect and validate (some image is valid), sort.
ProgCollectSort ==
    /\ prog_pc = "collect"
    /\ prog_log' = IF prog_config.sort_by_time THEN <<10, 20>> ELSE <<10>>
    /\ prog_pc' = "preprocess"
    /\ UNCHANGED prog_idx
    /\ ProgUnchanged

\* Lines 155-159.
ProgPreprocess ==
    /\ prog_pc = "preprocess"
    /\ UpdateProgress(22)
    /\ prog_pc' = "branch"
    /\ UNCHANGED prog_idx
    /\ ProgUnchanged

\* Lines 162-176: the AI arms leave clips unbound and line 192 ends the run;
\* the two other arms report 30 and start their loop.
ProgBranch ==
    /\ prog_pc = "branch"
    /\ IF prog_config.enable_ai_analysis
       THEN /\ IF prog_ai_available THEN UpdateProgress(25) ELSE UNCHANGED prog_log
            /\ prog_pc' = "done"
       ELSE /\ UpdateProgress(30)
            /\ prog_pc' = "clips"
    /\ UNCHANGED prog_idx
    /\ ProgUnchanged

\* Lines 178-190 and 1304-1309: one round of the loop over the images.
ProgClipStep ==
    /\ prog_pc = "clips"
    /\ prog_idx < prog_images
    /\ UpdateProgress(ClipProgress(prog_idx, prog_images))
    /\ prog_idx' = prog_idx + 1
    /\ UNCHANGED prog_pc
    /\ ProgUnchanged

\* Lines 192-207: some clip was made; beat sync reports when the music file
\* is there.
ProgBeatSync ==
    /\ prog_pc = "clips"
    /\ prog_idx = prog_images
    /\ IF prog_config.enable_beat_sync /\ prog_config.background_music = "present"
       THEN UpdateProgress(60) ELSE UNCHANGED prog_log
    /\ prog_pc' = "transitions"
    /\ UNCHANGED prog_idx
    /\ ProgUnchanged

\* Lines 210-216: transitions, concatenation.
ProgTransitionsConcat ==
    /\ prog_pc = "transitions"
    /\ prog_log' = prog_log \o (IF prog_config.enable_transitions
                                THEN <<70, 80>> ELSE <<80>>)
    /\ prog_pc' = "music"
    /\ UNCHANGED prog_idx
    /\ ProgUnchanged

\* Lines 219-254: ai_content and narration_audio_path are None here; the
\* music, the writer, the end.
ProgMusicWrite ==
    /\ prog_pc = "music"
    /\ prog_log' = prog_log \o (IF prog_config.background_music = "present"
                                THEN <<88, 90, 100>> ELSE <<90, 100>>)
    /\ prog_pc' = "done"
    /\ UNCHANGED prog_idx
    /\ ProgUnchanged

\* An exception in the stage reached: except Exception, return False.
ProgRaise ==
    /\ prog_pc \notin {"done", "idle"}
    /\ prog_pc' = "done"
    /\ UNCHANGED <<prog_idx, prog_log>>
    /\ ProgUnchanged

ProgressNext ==
    \/ ProgCollectSort
    \/ ProgPreprocess
    \/ ProgBranch
    \/ ProgClipStep
    \/ ProgBeatSync
    \/ ProgTransitionsConcat
    \/ ProgMusicWrite
    \/ ProgRaise

(***************************************************************************)
(* divia/main.py and divia/mission_check.py: the mission service.  Upload  *)
(* requests are coroutines of one event loop, process_mission is the       *)
(* background task of an upload, and mission_check runs on a worker        *)
(* thread; they share the dictionaries of mission_db.  A dictionary is a   *)
(* function on its keys.  A perceptual hash of 64 bits is modelled by the  *)
(* number of its leading bits that are set, so that the Hamming distance   *)
(* of two hashes is the difference of the two numbers.                     *)
(***************************************************************************)
MaxMissions == 2

HashBits == 64

\* what dict.get answers for a key the dictionary does not have
None == "None"

Get(dict, key) == IF key \in DOMAIN dict THEN dict[key] ELSE None

Put(dict, key, value) ==
    [k \in DOMAIN dict \cup {key} |-> IF k = key THEN value ELSE dict[k]]

\* a file that Image.open or phash rejects
NotAnImage == [readable |-> FALSE, hash |-> 0]

NoResponse == [none |-> TRUE]

NotReady == [error |-> "mission not ready"]

\* str(uuid.uuid4()): an id no earlier upload was given
MissionIds == 1 .. MaxMissions

\* the hashes of the check images: 19 and 20 bits away from the origin hash
CheckHashes == {19, 20}

Images == {[readable |-> TRUE, hash |-> 0], NotAnImage}

MissionKinds == {"landmark", "location", "quiz"}

\* geodesic(...).meters, to the metre
Distances == {60, 61}

CheckRequests ==
    [mission_id : MissionIds, distance_m : Distances, new_hash : CheckHashes]

MissionStart ==
    /\ mission_status = <<>>
    /\ mission_hash = <<>>
    /\ mission_type = <<>>
    /\ mission_image = [id \in MissionIds |-> NotAnImage]
    /\ mission_task = [id \in MissionIds |-> "none"]
    /\ check_pc = "idle"
    /\ check_req = [mission_id |-> 1, distance_m |-> 60, new_hash |-> 19]
    /\ check_evaluated = {}
    /\ check_response = NoResponse

MissionIdle == MissionStart

\* round(x, 2) of the double n / d, in hundredths: n / d is a multiple of
\* 1/64 here, which a double holds exactly, so the tie goes to the even digit
RoundHundredths(n, d) ==
    LET q == (100 * n) \div d
        r == (100 * n) % d
    IN  IF 2 * r > d \/ (2 * r = d /\ q % 2 = 1) THEN q + 1 ELSE q

\* gps_within_radius, the first component
gps_within_radius(distance_m) ==
    LET radius == 50
        gps_noise == 10
    IN  distance_m <= radius + gps_noise

\* image_similarity, in hundredths
image_similarity(mission_id, new_hash) ==
    IF mission_id \notin DOMAIN mission_hash
    THEN 100 * 100
    ELSE LET origin_hash == mission_hash[mission_id]
             diff == Abs(origin_hash - new_hash)
         IN  RoundHundredths(100 * HashBits - 100 * diff, HashBits)

\* the test that opens mission_check
mission_not_ready_unless_failed(mission_id) == Get(mission_status, mission_id) = "pending"

mission_not_ready(mission_id) == Get(mission_status, mission_id) # "done"

\* upload_mission up to "content = await file.read()"
UploadMission(kind, image) ==
    LET mission_id == Cardinality(DOMAIN mission_status) + 1
    IN  /\ mission_id \in MissionIds
        /\ mission_status' = Put(mission_status, mission_id, "pending")
        /\ mission_type' = Put(mission_type, mission_id, kind)
        /\ mission_image' = [mission_image EXCEPT ![mission_id] = image]
        /\ mission_task' = [mission_task EXCEPT ![mission_id] = "reading"]
        /\ UNCHANGED <<mission_hash, check_pc, check_req, check_evaluated,
                       check_response, notMission>>

\* upload_mission from there: the origin file is written and the task added
SaveOrigin(mission_id) ==
    /\ mission_task[mission_id] = "reading"
    /\ mission_task' = [mission_task EXCEPT ![mission_id] = "queued"]
    /\ UNCHANGED <<mission_status, mission_hash, mission_type, mission_image,
                   check_pc, check_req, check_evaluated, check_response,
                   notMission>>

\* ... or reading or writing the file raises, and no task is added
SaveOriginFails(mission_id) ==
    /\ mission_task[mission_id] = "reading"
    /\ mission_task' = [mission_task EXCEPT ![mission_id] = "failed"]
    /\ UNCHANGED <<mission_status, mission_hash, mission_type, mission_image,
                   check_pc, check_req, check_evaluated, check_response,
                   notMission>>

\* process_mission up to "await asyncio.sleep(1)", or to the end of its
\* except clause
ProcessHash(mission_id) ==
    /\ mission_task[mission_id] = "queued"
    /\ IF ~mission_image[mission_id].readable
       THEN /\ mission_status' = Put(mission_status, mission_id, "error")
            /\ mission_task' = [mission_task EXCEPT ![mission_id] = "finished"]
            /\ UNCHANGED mission_hash
       ELSE /\ mission_hash' = Put(mission_hash, mission_id,
                                    mission_image[mission_id].hash)
            /\ mission_task' = [mission_task EXCEPT ![mission_id] = "sleeping"]
            /\ UNCHANGED mission_status
    /\ UNCHANGED <<mission_type, mission_image, check_pc, check_req,
                   check_evaluated, check_response, notMission>>

\* process_mission after the sleep
ProcessDone(mission_id) ==
    /\ mission_task[mission_id] = "sleeping"
    /\ mission_status' = Put(mission_status, mission_id, "done")
    /\ mission_task' = [mission_task EXCEPT ![mission_id] = "finished"]
    /\ UNCHANGED <<mission_hash, mission_type, mission_image, check_pc,
                   check_req, check_evaluated, check_response, notMission>>

\* mission_check up to the saving of the check image
MissionCheckBegin(req) ==
    /\ check_pc = "idle"
    /\ check_req' = req
    /\ IF mission_not_ready(req.mission_id)
       THEN /\ check_response' = NotReady
            /\ check_evaluated' = {}
            /\ check_pc' = "idle"
       ELSE /\ check_response' = NoResponse
            /\ check_evaluated' = {"gps"}
            /\ check_pc' = "saved"
    /\ UNCHANGED <<mission_status, mission_hash, mission_type, mission_image,
                   mission_task, notMission>>

\* mission_check from there
MissionCheckFinish ==
    /\ check_pc = "saved"
    /\ LET mission_id == check_req.mission_id
           gps_ok == gps_within_radius(check_req.distance_m)
           similarity == image_similarity(mission_id, check_req.new_hash)
           similarity_ok == similarity >= 70 * 100
           m_type == Get(mission_type, mission_id)
           success == IF m_type \in {"landmark", "food"}
                      THEN gps_ok /\ similarity_ok
                      ELSE IF m_type = "location" THEN gps_ok ELSE FALSE
       IN  check_response' =
               [mission_id |-> mission_id, mission_type |-> m_type,
                gps_ok |-> gps_ok, similarity |-> similarity,
                similarity_ok |-> similarity_ok, success |-> success]
    /\ check_evaluated' = check_evaluated \cup {"similarity"}
    /\ check_pc' = "idle"
    /\ UNCHANGED <<mission_status, mission_hash, mission_type, mission_image,
                   mission_task, check_req, notMission>>

MissionNext ==
    \/ \E kind \in MissionKinds, image \in Images :
           UploadMission(kind, image)
    \/ \E mission_id \in MissionIds : SaveOrigin(mission_id)
    \/ \E mission_id \in MissionIds : SaveOriginFails(mission_id)
    \/ \E mission_id \in MissionIds : ProcessHash(mission_id)
    \/ \E mission_id \in MissionIds : ProcessDone(mission_id)
    \/ \E req \in CheckRequests : MissionCheckBegin(req)
    \/ MissionCheckFinish

(***************************************************************************)
(* job_manager.py: JobManager keeps one JSON file per job.  The files are  *)
(* a function from job ids to job_data; an Optional value is a sequence of *)
(* at most one element, <<>> being None; a time stamp is the reading of    *)
(* the clock, of which isoformat makes a string one to one.                *)
(***************************************************************************)
MaxJobCalls == 3

JobIds == {"job-1", "job-2"}

NoValue == <<>>

Some(v) == <<v>>

JobStatus == {"pending", "processing", "completed", "failed"}

\* the keyword arguments of update_job_status besides status, in the
\* combinations the model passes: none, each alone, and all together
UpdateFields ==
    LET none == [progress |-> NoValue, message |-> NoValue, error |-> NoValue,
                 output_file |-> NoValue, metadata |-> NoValue]
    IN  {none,
         [none EXCEPT !.progress = Some(0)],
         [none EXCEPT !.progress = Some(100)],
         [none EXCEPT !.message = Some("rendering")],
         [none EXCEPT !.error = Some("no images")],
         [none EXCEPT !.output_file = Some("reels.mp4")],
         [none EXCEPT !.metadata = Some([photo_count |-> 2])],
         [progress |-> Some(100), message |-> Some(""), error |-> Some(""),
          output_file |-> Some("reels.mp4"),
          metadata |-> Some([photo_count |-> 2])]}

UpdateArgs ==
    {[job_id |-> id, status |-> s, fields |-> f] :
        id \in JobIds, s \in {NoValue} \cup {Some(v) : v \in JobStatus \ {"pending"}},
        f \in UpdateFields}

JobStart ==
    /\ jobs = <<>>
    /\ job_clock = 0
    /\ job_call = [op |-> "none"]

JobIdle == JobStart

\* dict.update
DictUpdate(dict, other) ==
    [k \in DOMAIN dict \cup DOMAIN other |->
        IF k \in DOMAIN other THEN other[k] ELSE dict[k]]

\* the job_data create_job writes; the two directories are left out of the
\* metadata, being functions of the job id
create_job(job_id, photo_count, now) ==
    [job_id |-> job_id, status |-> "pending", progress |-> 0,
     message |-> "created", created_at |-> now, updated_at |-> now,
     completed_at |-> NoValue, error |-> NoValue, output_file |-> NoValue,
     metadata |-> Some([photo_count |-> photo_count])]

\* the job_data update_job_status writes back
update_job_status_stamps_always(job_data, args, now) ==
    [job_data EXCEPT !.updated_at = now, !.completed_at = Some(now)]

update_job_status(job_data, args, now) ==
    LET f == args.fields
        d1 == IF args.status # NoValue
              THEN [job_data EXCEPT !.status = args.status[1]] ELSE job_data
        d2 == IF f.progress # NoValue
              THEN [d1 EXCEPT !.progress = f.progress[1]] ELSE d1
        d3 == IF f.message # NoValue
              THEN [d2 EXCEPT !.message = f.message[1]] ELSE d2
        d4 == IF f.error # NoValue THEN [d3 EXCEPT !.error = f.error] ELSE d3
        d5 == IF f.output_file # NoValue
              THEN [d4 EXCEPT !.output_file = f.output_file] ELSE d4
        d6 == IF f.metadata # NoValue
              THEN LET old == IF d5.metadata = NoValue THEN <<>> ELSE d5.metadata[1]
                   IN  [d5 EXCEPT !.metadata = Some(DictUpdate(old, f.metadata[1]))]
              ELSE d5
        d7 == [d6 EXCEPT !.updated_at = now]
    IN  IF args.status \in {Some("completed"), Some("failed")}
        THEN [d7 EXCEPT !.completed_at = Some(now)]
        ELSE d7

\* JobManager.create_job: uuid4 gives an id no job has
CreateJob(photo_count) ==
    /\ job_clock < MaxJobCalls
    /\ \E job_id \in JobIds \ DOMAIN jobs :
           /\ jobs' = [id \in DOMAIN jobs \cup {job_id} |->
                          IF id = job_id
                          THEN create_job(job_id, photo_count, job_clock + 1)
                          ELSE jobs[id]]
           /\ job_call' = [op |-> "create", ret |-> job_id]
    /\ job_clock' = job_clock + 1
    /\ UNCHANGED notJob

\* JobManager.update_job_status
UpdateJobStatus(args) ==
    /\ job_clock < MaxJobCalls
    /\ IF args.job_id \notin DOMAIN jobs
       THEN /\ job_call' = [op |-> "update", args |-> args, ret |-> FALSE]
            /\ UNCHANGED jobs
       ELSE /\ jobs' = [jobs EXCEPT ![args.job_id] =
                           update_job_status(jobs[args.job_id], args, job_clock + 1)]
            /\ job_call' = [op |-> "update", args |-> args, ret |-> TRUE]
    /\ job_clock' = job_clock + 1
    /\ UNCHANGED notJob

JobNext ==
    \/ \E photo_count \in {2, 5} : CreateJob(photo_count)
    \/ \E args \in UpdateArgs : UpdateJobStatus(args)

(***************************************************************************)
(* agents/langgraph_workflow.py once more: a LandmarkWorkflow answering    *)
(* one user input after another, with the travel state it keeps between    *)
(* the runs and the handler nodes in full.  The functions of the landmark  *)
(* agent that the handlers call answer with an AgentResponse: a failure,   *)
(* or a success with a list of places, of which the model keeps the place  *)
(* ids.  A response is told by its kind, not by its text.                  *)
(***************************************************************************)
MaxTourPhrases == 1

\* "먼저 관광지를 검색해주세요!"
SearchFirst == "search first"

\* The regions search_node knows, in the order it tries them, and the six of
\* them the two recommend nodes know.
Regions ==
    <<[name |-> "jeju", text |-> <<"je", "ju">>],
      [name |-> "busan", text |-> <<"bu", "san">>],
      [name |-> "seoul", text |-> <<"seo", "ul">>],
      [name |-> "yongin", text |-> <<"yong", "in">>],
      [name |-> "gyeongju", text |-> <<"gyeong", "ju">>],
      [name |-> "gangneung", text |-> <<"gang", "neung">>],
      [name |-> "incheon", text |-> <<"in", "cheon">>],
      [name |-> "daegu", text |-> <<"dae", "gu">>],
      [name |-> "gwangju", text |-> <<"gwang", "ju">>],
      [name |-> "daejeon", text |-> <<"dae", "jeon">>]>>

\* for r in regions: if r in user_input: region = r; break
RECURSIVE ExtractRegion(_, _)
ExtractRegion(text, regions) ==
    IF regions = <<>> THEN "seoul"
    ELSE IF Contains(text, Head(regions).text) THEN Head(regions).name
    ELSE ExtractRegion(text, Tail(regions))

\* The index detail_node and nearby_node read from the ordinal in the text;
\* nearby_node knows the first three only.
ExtractIndex(text, known) ==
    LET ordinals == <<{<<"cheot">>, <<"1">>}, {<<"du">>, <<"2">>},
                      {<<"se">>, <<"3">>}, {<<"ne">>, <<"4">>},
                      {<<"da", "seot">>, <<"5">>}>>
        found == {i \in 1 .. known : ContainsAny(text, ordinals[i])}
    IN  IF found = {} THEN 0
        ELSE (CHOOSE i \in found : \A j \in found : i <= j) - 1

\* What a call of the landmark agent may answer.
LookupResults ==
    {[success |-> FALSE, places |-> 0],
     [success |-> TRUE, places |-> 0],
     [success |-> TRUE, places |-> 2]}

PlaceIds(region, places) == [i \in 1 .. places |-> <<region, i>>]

\* "not current_region or current_region not in search_results"
NoResultsStored(ts) ==
    ts.current_region = None \/ ts.current_region \notin DOMAIN ts.search_results

\* detail_node and nearby_node: the response, the error and the calls made
lookup_before_guard(name, ts, text, result) ==
    [response |-> IF NoResultsStored(ts) THEN SearchFirst ELSE "answer",
     error |-> "",
     lookups |-> <<[fn |-> name, place_id |-> <<"seoul", 1>>]>>]

place_node(name, ts, text, result) ==
    LET index == ExtractIndex(text, IF name = "detail" THEN 5 ELSE 3)
        lookup == IF name = "detail"
                  THEN "get_landmark_detail" ELSE "find_nearby_landmarks"
    IN  IF NoResultsStored(ts)
        THEN [response |-> SearchFirst,
              error |-> IF name = "detail" THEN "no search result" ELSE "",
              lookups |-> <<>>]
        ELSE LET search_results == ts.search_results[ts.current_region]
             IN  IF index >= Len(search_results)
                 THEN [response |-> "no such result",
                       error |-> IF name = "detail" THEN "index out of range" ELSE "",
                       lookups |-> <<>>]
                 ELSE [response |-> IF result.success THEN "answer" ELSE "failed",
                       error |-> IF result.success THEN "" ELSE "lookup failed",
                       lookups |-> <<[fn |-> lookup,
                                      place_id |-> search_results[index + 1]]>>]

\* The requests the user inputs are made of: a search in two regions, the
\* recommendations, detail and nearby requests with and without an ordinal,
\* and a text with no keyword in it.
TourPhrases ==
    {<<"seo", "ul", " ", "chaj", "a", "jwo">>, <<"je", "ju", " ", "chaj", "a", "jwo">>,
     <<"bom">>, <<"je", "ju", " ", "ya", "gyeong">>,
     <<"cheot", " ", "beon", "jjae">>, <<"du", " ", "beon", "jjae", " ", "eo", "ttae">>,
     <<"ja", "se", "hi">>, <<"3", " ", "jeong", "bo">>,
     <<"ju", "byeon">>, <<"du", " ", "beon", "jjae", " ", "geun", "cheo">>,
     <<"mat", "jip">>}

TourInputs ==
    {Join(p) : p \in UNION {[1 .. n -> TourPhrases] : n \in 0 .. MaxTourPhrases}}

\* LandmarkWorkflow.__init__: TravelState(user_id=user_id)
TourStart ==
    /\ tour_input = <<>>
    /\ tour_intent = ""
    /\ tour_node = "idle"
    /\ travel_state = [current_region |-> None, search_results |-> <<>>]
    /\ tour_response = ""
    /\ tour_error = ""
    /\ tour_lookups = <<>>
    /\ tour_visited = <<>>

TourIdle == TourStart

\* LandmarkWorkflow.run: the initial state, at the entry point
TourRun(input) ==
    /\ tour_node \in {"idle", "END"}
    /\ tour_input' = input
    /\ tour_intent' = ""
    /\ tour_response' = ""
    /\ tour_error' = ""
    /\ tour_lookups' = <<>>
    /\ tour_visited' = <<>>
    /\ tour_node' = "router"
    /\ UNCHANGED <<travel_state, notTour>>

\* router_node, then the conditional edge route_by_intent
TourRouter ==
    /\ tour_node = "router"
    /\ tour_intent' = router_intent(tour_input)
    /\ tour_node' = tour_intent'
    /\ UNCHANGED <<tour_input, travel_state, tour_response, tour_error,
                   tour_lookups, tour_visited, notTour>>

\* search_node, season_recommend_node and time_recommend_node: the region
\* is read from the text, the landmark agent is asked, and a success is
\* stored in the travel state
FindNode(name, lookup, known, result) ==
    /\ tour_node = name
    /\ LET region == ExtractRegion(tour_input, SubSeq(Regions, 1, known))
       IN  /\ tour_lookups' = <<[fn |-> lookup, region |-> region]>>
           /\ IF result.success
              THEN /\ travel_state' =
                          [current_region |-> region,
                           search_results |->
                               Put(travel_state.search_results, region,
                                   PlaceIds(region, result.places))]
                   /\ tour_response' = "answer"
                   /\ UNCHANGED tour_error
              ELSE /\ tour_response' = "failed"
                   /\ tour_error' = "lookup failed"
                   /\ UNCHANGED travel_state
    /\ tour_visited' = Append(tour_visited, name)
    /\ tour_node' = "END"
    /\ UNCHANGED <<tour_input, tour_intent, notTour>>

SearchNode(result) == FindNode("search", "search_landmarks", 10, result)

SeasonRecommendNode(result) ==
    FindNode("season_recommend", "recommend_by_season", 6, result)

TimeRecommendNode(result) ==
    FindNode("time_recommend", "recommend_by_time", 6, result)

\* detail_node and nearby_node
PlaceNode(name, result) ==
    /\ tour_node = name
    /\ LET out == place_node(name, travel_state, tour_input, result)
       IN  /\ tour_response' = out.response
           /\ tour_error' = out.error
           /\ tour_lookups' = out.lookups
    /\ tour_visited' = Append(tour_visited, name)
    /\ tour_node' = "END"
    /\ UNCHANGED <<tour_input, tour_intent, travel_state, notTour>>

DetailNode(result) == PlaceNode("detail", result)

NearbyNode(result) == PlaceNode("nearby", result)

\* unknown_node
UnknownNode ==
    /\ tour_node = "unknown"
    /\ tour_response' = "help"
    /\ tour_visited' = Append(tour_visited, "unknown")
    /\ tour_node' = "END"
    /\ UNCHANGED <<tour_input, tour_intent, travel_state, tour_error,
                   tour_lookups, notTour>>

TourNext ==
    \/ \E input \in TourInputs : TourRun(input)
    \/ TourRouter
    \/ \E result \in LookupResults : SearchNode(result)
    \/ \E result \in LookupResults : SeasonRecommendNode(result)
    \/ \E result \in LookupResults : TimeRecommendNode(result)
    \/ \E result \in LookupResults : DetailNode(result)
    \/ \E result \in LookupResults : NearbyNode(result)
    \/ UnknownNode

(***************************************************************************)
(* The specifications: one part runs, the others stand idle.               *)
(***************************************************************************)
InitEasing ==
    /\ EasingStart
    /\ BeatsIdle /\ PoolIdle /\ MorphIdle
    /\ WipeIdle /\ ReelsIdle /\ MotionIdle /\ RouterIdle /\ TransIdle
    /\ RetimeIdle /\ DurationIdle /\ CropIdle /\ MoodIdle /\ ProgressIdle
    /\ MissionIdle /\ JobIdle /\ TourIdle
SpecEasing == InitEasing /\ [][EasingNext]_vars

InitBeats ==
    /\ BeatsStart
    /\ EasingIdle /\ PoolIdle /\ MorphIdle
    /\ WipeIdle /\ ReelsIdle /\ MotionIdle /\ RouterIdle /\ TransIdle
    /\ RetimeIdle /\ DurationIdle /\ CropIdle /\ MoodIdle /\ ProgressIdle
    /\ MissionIdle /\ JobIdle /\ TourIdle
SpecBeats == InitBeats /\ [][BeatsNext]_vars

InitPool ==
    /\ PoolStart
    /\ EasingIdle /\ BeatsIdle /\ MorphIdle
    /\ WipeIdle /\ ReelsIdle /\ MotionIdle /\ RouterIdle /\ TransIdle
    /\ RetimeIdle /\ DurationIdle /\ CropIdle /\ MoodIdle /\ ProgressIdle
    /\ MissionIdle /\ JobIdle /\ TourIdle
SpecPool == InitPool /\ [][PoolNext]_vars

InitMorph ==
    /\ MorphStart
    /\ EasingIdle /\ BeatsIdle /\ PoolIdle
    /\ WipeIdle /\ ReelsIdle /\ MotionIdle /\ RouterIdle /\ TransIdle
    /\ RetimeIdle /\ DurationIdle /\ CropIdle /\ MoodIdle /\ ProgressIdle
    /\ MissionIdle /\ JobIdle /\ TourIdle
SpecMorph == InitMorph /\ [][MorphNext]_vars

InitWipe ==
    /\ WipeStart
    /\ EasingIdle /\ BeatsIdle /\ PoolIdle
    /\ MorphIdle /\ ReelsIdle /\ MotionIdle /\ RouterIdle /\ TransIdle
    /\ RetimeIdle /\ DurationIdle /\ CropIdle /\ MoodIdle /\ ProgressIdle
    /\ MissionIdle /\ JobIdle /\ TourIdle
SpecWipe == InitWipe /\ [][WipeNext]_vars

InitReels ==
    /\ ReelsStart
    /\ EasingIdle /\ BeatsIdle /\ PoolIdle
    /\ MorphIdle /\ WipeIdle /\ MotionIdle /\ RouterIdle /\ TransIdle
    /\ RetimeIdle /\ DurationIdle /\ CropIdle /\ MoodIdle /\ ProgressIdle
    /\ MissionIdle /\ JobIdle /\ TourIdle
SpecReels == InitReels /\ [][ReelsNext]_vars

InitMotion ==
    /\ MotionStart
    /\ EasingIdle /\ BeatsIdle /\ PoolIdle
    /\ MorphIdle /\ WipeIdle /\ ReelsIdle /\ RouterIdle /\ TransIdle
    /\ RetimeIdle /\ DurationIdle /\ CropIdle /\ MoodIdle /\ ProgressIdle
    /\ MissionIdle /\ JobIdle /\ TourIdle
SpecMotion == InitMotion /\ [][MotionNext]_vars

InitRouter ==
    /\ RouterStart
    /\ EasingIdle /\ BeatsIdle /\ PoolIdle /\ MorphIdle
    /\ WipeIdle /\ ReelsIdle /\ MotionIdle /\ TransIdle /\ RetimeIdle
    /\ DurationIdle /\ CropIdle /\ MoodIdle /\ ProgressIdle /\ MissionIdle
    /\ JobIdle /\ TourIdle
SpecRouter == InitRouter /\ [][RouterNext]_vars

InitTrans ==
    /\ TransStart
    /\ EasingIdle /\ BeatsIdle /\ PoolIdle /\ MorphIdle
    /\ WipeIdle /\ ReelsIdle /\ MotionIdle /\ RouterIdle /\ RetimeIdle
    /\ DurationIdle /\ CropIdle /\ MoodIdle /\ ProgressIdle /\ MissionIdle
    /\ JobIdle /\ TourIdle
SpecTrans == InitTrans /\ [][TransNext]_vars

InitRetime ==
    /\ RetimeStart
    /\ EasingIdle /\ BeatsIdle /\ PoolIdle /\ MorphIdle /\ WipeIdle
    /\ ReelsIdle /\ MotionIdle /\ RouterIdle /\ TransIdle /\ DurationIdle
    /\ CropIdle /\ MoodIdle /\ ProgressIdle /\ MissionIdle /\ JobIdle
    /\ TourIdle
SpecRetime == InitRetime /\ [][RetimeNext]_vars

InitDuration ==
    /\ DurationStart
    /\ EasingIdle /\ BeatsIdle /\ PoolIdle /\ MorphIdle /\ WipeIdle
    /\ ReelsIdle /\ MotionIdle /\ RouterIdle /\ TransIdle /\ RetimeIdle
    /\ CropIdle /\ MoodIdle /\ ProgressIdle /\ MissionIdle /\ JobIdle
    /\ TourIdle
SpecDuration == InitDuration /\ [][DurationNext]_vars

InitCrop ==
    /\ CropStart
    /\ EasingIdle /\ BeatsIdle /\ PoolIdle /\ MorphIdle /\ WipeIdle
    /\ ReelsIdle /\ MotionIdle /\ RouterIdle /\ TransIdle /\ RetimeIdle
    /\ DurationIdle /\ MoodIdle /\ ProgressIdle /\ MissionIdle /\ JobIdle
    /\ TourIdle
SpecCrop == InitCrop /\ [][CropNext]_vars

InitMood ==
    /\ MoodStart
    /\ EasingIdle /\ BeatsIdle /\ PoolIdle /\ MorphIdle /\ WipeIdle
    /\ ReelsIdle /\ MotionIdle /\ RouterIdle /\ TransIdle /\ RetimeIdle
    /\ DurationIdle /\ CropIdle /\ ProgressIdle /\ MissionIdle /\ JobIdle
    /\ TourIdle
SpecMood == InitMood /\ [][MoodNext]_vars

InitProgress ==
    /\ ProgressStart
    /\ EasingIdle /\ BeatsIdle /\ PoolIdle /\ MorphIdle /\ WipeIdle
    /\ ReelsIdle /\ MotionIdle /\ RouterIdle /\ TransIdle /\ RetimeIdle
    /\ DurationIdle /\ CropIdle /\ MoodIdle /\ MissionIdle /\ JobIdle
    /\ TourIdle
SpecProgress == InitProgress /\ [][ProgressNext]_vars

InitMission ==
    /\ MissionStart
    /\ EasingIdle /\ BeatsIdle /\ PoolIdle /\ MorphIdle /\ WipeIdle
    /\ ReelsIdle /\ MotionIdle /\ RouterIdle /\ TransIdle /\ RetimeIdle
    /\ DurationIdle /\ CropIdle /\ MoodIdle /\ ProgressIdle /\ JobIdle
    /\ TourIdle
SpecMission == InitMission /\ [][MissionNext]_vars

InitJob ==
    /\ JobStart
    /\ EasingIdle /\ BeatsIdle /\ PoolIdle /\ MorphIdle /\ WipeIdle
    /\ ReelsIdle /\ MotionIdle /\ RouterIdle /\ TransIdle /\ RetimeIdle
    /\ DurationIdle /\ CropIdle /\ MoodIdle /\ ProgressIdle /\ MissionIdle
    /\ TourIdle
SpecJob == InitJob /\ [][JobNext]_vars

InitTour ==
    /\ TourStart
    /\ EasingIdle /\ BeatsIdle /\ PoolIdle /\ MorphIdle /\ WipeIdle
    /\ ReelsIdle /\ MotionIdle /\ RouterIdle /\ TransIdle /\ RetimeIdle
    /\ DurationIdle /\ CropIdle /\ MoodIdle /\ ProgressIdle /\ MissionIdle
    /\ JobIdle
SpecTour == InitTour /\ [][TourNext]_vars

\* The styles that never leave [0, 1]: every family but elastic and back.
NonOvershoot ==
    {"linear",
     "ease_in_quad", "ease_out_quad", "ease_in_out_quad",
     "ease_in_cubic", "ease_out_cubic", "ease_in_out_cubic",
     "ease_in_quart", "ease_out_quart", "ease_in_out_quart",
     "ease_in_sine", "ease_out_sine", "ease_in_out_sine",
     "ease_in_expo", "ease_out_expo", "ease_in_out_expo"}

C10_LookupTotal ==
    /\ easing_func = "unset" => ENABLED GetEasingFunction
    /\ easing_func # "unset" =>
        /\ easing_func \in EasingFunctionSet
        /\ easing_name \in DOMAIN EASING_FUNCTIONS =>
               easing_func = EASING_FUNCTIONS[easing_name]
        /\ easing_name \notin DOMAIN EASING_FUNCTIONS =>
               easing_func = "ease_in_out_cubic"
        /\ ease_value # <<>> =>
               ease_value = ApplyEasing(
                   IF easing_name \in DOMAIN EASING_FUNCTIONS
                   THEN easing_name ELSE "ease_in_out_cubic", ease_t)

\* An unregistered name was looked up and the default was called.
C10_Witness ==
    /\ easing_name = "bounce"
    /\ easing_func = "ease_in_out_cubic"
    /\ ease_t = 5
    /\ ease_value = <<1, 2>>

\* C3: the beats returned are strictly increasing and any two consecutive
\* ones are at least min_interval apart.
C3_BeatSpacing ==
    \A j \in 1 .. Len(beats) - 1 :
        /\ beats[j] < beats[j + 1]
        /\ RLe(min_interval, RInt(beats[j + 1] - beats[j]))

\* Two loud windows three ticks apart, both above the threshold and both
\* taken with a min_interval of two ticks: the list returned holds two beats.
C3_Witness ==
    /\ beat_pc = "done"
    /\ energies = <<1, 0, 0, 1, 0, 0, 0>>
    /\ min_interval = RInt(2)
    /\ beats = <<0, 3>>

\* The result r stands for the input path: its processed copy or itself.
Corresponds(r, path) == r = path \/ r = ProcessedPath(path)

\* C2: in every interleaving of the workers the results keep the input order:
\* the result at position k is that of the input at position k, in the list
\* collected and in the list returned.
C2_OrderPreserved ==
    /\ \A k \in 1 .. Len(pool_results) : Corresponds(pool_results[k], pool_tasks[k])
    /\ pool_pc = "done" =>
           /\ Len(processed_files) = Len(pool_tasks)
           /\ \A k \in 1 .. Len(processed_files) :
                  Corresponds(processed_files[k], pool_tasks[k])

\* Five tasks on four workers, finished out of order, and the list returned.
C2_Witness ==
    /\ pool_pc = "done"
    /\ Len(pool_tasks) = MaxWorkers + 1
    /\ pool_completion[1] = 3
    /\ pool_completion[2] = 1
    /\ Len(processed_files) = MaxWorkers + 1

\* C7: the blend of two 8-bit frames is frame A at progress 0 and frame B at
\* progress 1, and every sample of it lies in 0..255 at every progress.
C7_MorphEndpoints ==
    morph_result # <<>> =>
        /\ morph_progress = 0 => morph_result = morph_frame1
        /\ morph_progress = ProgressDen => morph_result = morph_frame2
        /\ \A i \in DOMAIN morph_result : morph_result[i] \in 0 .. MaxSample

\* Two different frames blended at progress 1: the result is frame B.
C7_Witness ==
    /\ morph_frame1 = <<255>>
    /\ morph_frame2 = <<18>>
    /\ morph_progress = ProgressDen
    /\ morph_result = <<18>>

\* The pixels a wipe result takes from frame B.
FromB(result) == {px \in DOMAIN result : result[px] = wipe_frame2[px]}

\* C8: with the center and the size fixed, a call at a progress no smaller
\* than another's takes from frame B every pixel the other took from it, and
\* every pixel a result does not take from B it takes from A.
C8_WipeMonotonic ==
    /\ (wipe_prev_progress >= 0 /\ wipe_prev_progress <= wipe_progress) =>
           FromB(wipe_prev_result) \subseteq FromB(wipe_result)
    /\ wipe_progress >= 0 =>
           \A px \in Pixels(wipe_size) \ FromB(wipe_result) :
               wipe_result[px] = wipe_frame1[px]

\* Two calls with the progress growing: the first takes some pixels from B,
\* the second strictly more, and not yet all.
C8_Witness ==
    /\ wipe_size = <<MaxWipeSide, MaxWipeSide>>
    /\ wipe_prev_progress >= 0
    /\ wipe_prev_progress < wipe_progress
    /\ FromB(wipe_prev_result) # {}
    /\ FromB(wipe_prev_result) # FromB(wipe_result)
    /\ FromB(wipe_result) # Pixels(wipe_size)

NoValidImage ==
    ~input_dir_ok \/ \A i \in 1 .. Len(input_dir) : input_dir[i].kind # "valid"

ValidNames == {input_dir[i].name : i \in {k \in 1 .. Len(input_dir) : input_dir[k].kind = "valid"}}

\* C4 as stated: with no image file, or none that passes validation,
\* generate_reels returns False, write_videofile is never called and no file
\* is at output_path afterwards.
C4_NoOutputFile ==
    (reels_pc = "done" /\ ret # "idle" /\ NoValidImage) =>
        /\ ret = "False"
        /\ writer_calls = 0
        /\ ~output_exists

\* C4, amended: with no image file, or none that passes validation,
\* generate_reels returns False, write_videofile is never called and
\* output_path is left as it was: no file is there afterwards unless one was
\* there before the call.
C4_NoOutputWritten ==
    (ret # "idle" /\ NoValidImage) =>
        /\ reels_pc = "done" => ret = "False"
        /\ writer_calls = 0
        /\ output_exists = output_existed

\* A directory with a corrupt image and a file that is no image: the call
\* has returned False and the file of an earlier run is still there.
C4_Witness ==
    /\ reels_pc = "done"
    /\ ret = "False"
    /\ input_dir_ok
    /\ Len(input_dir) = 2
    /\ input_dir[1].kind = "corrupt"
    /\ input_dir[2].kind = "other"
    /\ output_existed
    /\ output_exists
    /\ writer_calls = 0

\* C5: with the default configuration, no clip-creation error and no
\* exception of a stage, images
\* that fail validation beside at least one that passes do not abort the run:
\* the clips built are those of the valid images, one each, and the run
\* gets to the container writer.
C5_InvalidSkipped ==
    (/\ ret # "idle"
     /\ config = DefaultConfig
     /\ input_dir_ok
     /\ ValidNames # {}
     /\ \E i \in 1 .. Len(input_dir) : input_dir[i].kind = "corrupt"
     /\ clip_errors = 0
     /\ raised = "") =>
        /\ reels_pc \in {"beats", "transitions", "concat", "write", "done"} =>
              /\ Len(clips) = Cardinality(ValidNames)
              /\ {clips[i].source : i \in 1 .. Len(clips)} = ValidNames
        /\ reels_pc = "done" => writer_calls = 1

\* Two valid images around a corrupt one: two clips, and the video written.
C5_Witness ==
    /\ reels_pc = "done"
    /\ ret = "True"
    /\ config = DefaultConfig
    /\ Len(input_dir) = 3
    /\ input_dir[1].kind = "valid"
    /\ input_dir[2].kind = "corrupt"
    /\ input_dir[3].kind = "valid"
    /\ clip_errors = 0
    /\ Len(clips) = 2
    /\ writer_calls = 1

\* C6 as stated: N image clips of duration d each, fade transitions enabled:
\* the concatenated video is N*d - (N-1)*0.5 seconds long.
C6_ConcatenatedLength ==
    (/\ final_clip # <<>>
     /\ config.enable_transitions
     /\ config.transition_style = "fade"
     /\ \A i \in 1 .. Len(clips) :
           clips[i].duration = RInt(config.duration_per_photo)) =>
        final_clip =
            RSub(RMul(RInt(Len(clips)), RInt(config.duration_per_photo)),
                 RMul(RInt(Len(clips) - 1), TransitionDuration))

\* C1 as stated: for every motion style and every t in [0, D), D the
\* duration of the clip, the frame the motion effect returns is
\* target_w x target_h.
C1_FrameDimensions ==
    \A i \in 1 .. Len(motion_frames) :
        /\ motion_frames[i].ok
        /\ motion_frames[i].w = TargetW
        /\ motion_frames[i].h = TargetH

\* The names of the elements of a sequence of images or clips, in order.
NamesOf(files) == [i \in 1 .. Len(files) |-> files[i].name]
SourcesOf(cl) == [i \in 1 .. Len(cl) |-> cl[i].source]

\* The images the clip loop has gone through whose clip creation did not raise.
NotSkipped(name) == \A j \in 1 .. Len(skipped) : skipped[j] # name

\* C11: once a clip builder runs (the image loop, SVD or its fallback), an
\* image whose clip creation raises is skipped alone: the clips built so far
\* are those of the other images the loop has gone through, in input order,
\* and the loop goes through all the images; when no clip at all was built
\* the run returns False and the container writer is not invoked.
C11_ClipErrorSkipped ==
    (ret # "idle" /\ clips_bound) =>
        /\ SourcesOf(clips) =
              SelectSeq(SubSeq(NamesOf(image_files), 1, clip_idx), NotSkipped)
        /\ Len(skipped) = clip_errors
        /\ (raised = "" /\ reels_pc \notin {"clips", "check"}) =>
              clip_idx = Len(image_files)
        /\ (reels_pc = "done" /\ clips = <<>>) =>
              ret = "False" /\ writer_calls = 0

\* Three valid images, the clip of the second raises: the clips of the first
\* and the third are built, in that order, and the video is written.
C11_Witness ==
    /\ reels_pc = "done"
    /\ ret = "True"
    /\ Len(image_files) = 3
    /\ skipped = <<NamesOf(image_files)[2]>>
    /\ SourcesOf(clips) = <<NamesOf(image_files)[1], NamesOf(image_files)[3]>>
    /\ writer_calls = 1

\* C12 as stated: with enable_ai_analysis set and a valid image in the input,
\* whether the openai package is there or not, a run in which no stage fails
\* (nothing raises but, possibly, the read of  clips  at line 192) builds clips
\* and gets to the container writer, and does not return False before it.
C12_AiStillBuildsClips ==
    (/\ ret # "idle"
     /\ config.enable_ai_analysis
     /\ input_dir_ok
     /\ ValidNames # {}
     /\ raised \in {"", "check"}
     /\ reels_pc = "done") =>
        /\ clips # <<>>
        /\ writer_calls = 1

\* C13: no exception leaves generate_reels: when a statement of any stage
\* raises, the call returns False; it returns, True or False, whenever it
\* ends; and it returns True only after write_videofile has completed.
C13_NeverPropagates ==
    ret # "idle" =>
        /\ ret \in {"running", "True", "False"}
        /\ reels_pc = "done" => ret \in {"True", "False"}
        /\ raised # "" => reels_pc = "done" /\ ret = "False"
        /\ ret = "True" => writer_calls = 1 /\ output_exists /\ raised = ""

\* concatenate_videoclips raises after two clips were built: the call returns
\* False and the container writer was never invoked.
C13_Witness ==
    /\ reels_pc = "done"
    /\ raised = "concat"
    /\ ret = "False"
    /\ Len(clips) = 2
    /\ writer_calls = 0

\* The user input has one of the keywords, as router_node reads it.
Has(keywords) == ContainsAny(Lower(user_input), keywords)

\* C14 as stated: a user input with an ordinal and a detail keyword, and
\* neither a season nor a time-of-day keyword, gets the intent detail and is
\* routed to the detail handler.
C14_OrdinalDetailRouted ==
    (/\ node \in Handlers \cup {"END"}
     /\ Has(OrdinalKeywords)
     /\ Has(DetailKeywords)
     /\ ~Has(SeasonKeywords)
     /\ ~Has(TimeKeywords)) =>
        /\ intent = "detail"
        /\ node \in {"detail", "END"}

\* C15 as stated: a user input with a nearby keyword, with or without an
\* ordinal, and neither a season nor a time-of-day keyword, gets the intent
\* nearby and is routed to the nearby handler.
C15_NearbyRouted ==
    (/\ node \in Handlers \cup {"END"}
     /\ Has(NearbyKeywords)
     /\ ~Has(SeasonKeywords)
     /\ ~Has(TimeKeywords)) =>
        /\ intent = "nearby"
        /\ node \in {"nearby", "END"}

\* C16 as stated: once _apply_transitions has returned, the frame a two-frame
\* effect (morph, circular wipe, page curl) composites with clip i inside its
\* transition window is the trailing frame of clip i-1, for every clip i > 0
\* of the sequence.
C16_PreviousClipComposited ==
    \A f \in {trans_frame[x] : x \in DOMAIN trans_frame} :
        f.effect \in TwoFrameEffects => f.prev = f.clip - 1

\* C17 as stated: for every style and every clip, the frame of the
\* transitioned clip at a time t >= transition_duration is the clip's own
\* frame at t.
C17_UnchangedOutsideWindow ==
    \A f \in {trans_frame[x] : x \in DOMAIN trans_frame} :
        RLe(TransitionDuration, f.t) => f = OwnFrame(f.clip, f.t)

\* The effects that resample the frame and crop the output out of it.
KenBurnsFns == {"_apply_ken_burns", "apply_enhanced_ken_burns"}

\* C18 as stated: for every Ken Burns style, every easing function and every
\* t in [0, D), the crop rectangle lies inside the resampled image
\* [0, new_w] x [0, new_h].
C18_CropInsideImage ==
    \A i \in 1 .. Len(motion_frames) :
        motion_effects[i].fn \in KenBurnsFns =>
            /\ 0 <= motion_frames[i].left
            /\ motion_frames[i].right <= motion_frames[i].new_w
            /\ 0 <= motion_frames[i].top
            /\ motion_frames[i].bottom <= motion_frames[i].new_h

\* current_time when the loop reaches clip i: the durations given before it.
RECURSIVE StartTime(_, _)
StartTime(out, i) ==
    IF i = 1 THEN RInt(0) ELSE RAdd(StartTime(out, i - 1), out[i - 1].duration)

\* The beats later than current_time + 0.5 when the loop reaches clip i.
LaterBeats(i) ==
    {j \in DOMAIN retime_beats :
        RLt(RAdd(StartTime(new_clips, i), RHalf), retime_beats[j])}

\* C19: adjust_clips_to_beats returns as many clips in the same order; a
\* non-final clip with a beat later than current_time + 0.5 lasts until the
\* first such beat, so it ends on a beat and lasts more than 0.5 s; the final
\* clip and a clip with no such beat keep their duration; with no beats the
\* clips are returned unchanged.
C19_ClipsFollowBeats ==
    retime_pc = "returned" =>
        /\ Len(new_clips) = Len(retime_clips)
        /\ \A i \in DOMAIN new_clips : new_clips[i].source = retime_clips[i].source
        /\ retime_beats = <<>> => new_clips = retime_clips
        /\ \A i \in DOMAIN new_clips :
              LET later == LaterBeats(i)
                  duration == new_clips[i].duration
              IN  IF i < Len(retime_clips) /\ later # {}
                  THEN LET first == CHOOSE j \in later : \A y \in later : j <= y
                       IN  /\ REq(duration, RSub(retime_beats[first],
                                                 StartTime(new_clips, i)))
                           /\ \E j \in DOMAIN retime_beats :
                                 REq(StartTime(new_clips, i + 1), retime_beats[j])
                           /\ RLt(RHalf, duration)
                  ELSE duration = retime_clips[i].duration

\* Three clips of 3, 0.5 and 3 s on the beats 0.25, 1, 3.5: the first ends
\* on the beat at 1 (0.25 is too early), the second on the beat at 3.5, the
\* last keeps its 3 s.
C19_Witness ==
    /\ retime_pc = "returned"
    /\ retime_beats = <<Rat(1, 4), RInt(1), Rat(7, 2)>>
    /\ Len(retime_clips) = 3
    /\ [i \in 1 .. 3 |-> retime_clips[i].duration] = <<RInt(3), RHalf, RInt(3)>>
    /\ Len(new_clips) = 3
    /\ REq(new_clips[1].duration, RInt(1))
    /\ REq(new_clips[2].duration, Rat(5, 2))
    /\ REq(new_clips[3].duration, RInt(3))

\* clamp(x, lo, hi) of a rational x between two integers.
Clamp(x, lo, hi) == RMax(RInt(lo), RMin(x, RInt(hi)))

\* C20 as stated: adjust_duration_by_importance returns exactly
\* clamp(base + (importance - 0.5) * 2, min, max), and the result lies in
\* [min, max].
C20_ExactClamp ==
    dur_pc = "returned" =>
        /\ REq(RInt(dur_result),
               Clamp(RAdd(RInt(dur_base),
                          RMul(RSub(dur_importance, RHalf), RInt(2))),
                     dur_limits[1], dur_limits[2]))
        /\ dur_limits[1] <= dur_result
        /\ dur_result <= dur_limits[2]

\* The cover-scaled size of the image get_smart_crop_region was called on.
CropNewSize == CoverSize(crop_image.size, crop_target)

\* C21 as stated: the region returned has the target's width and height and
\* lies inside the cover-scaled image; with no face detected it is centered
\* on the image center (to the pixel the integer halves allow).
C21_RegionInsideImage ==
    crop_region # <<>> =>
        /\ crop_region[3] - crop_region[1] = crop_target[1]
        /\ crop_region[4] - crop_region[2] = crop_target[2]
        /\ 0 <= crop_region[1]
        /\ crop_region[3] <= CropNewSize[1]
        /\ 0 <= crop_region[2]
        /\ crop_region[4] <= CropNewSize[2]
        /\ crop_image.faces = <<>> =>
              /\ Abs(crop_region[1] + crop_region[3] - CropNewSize[1]) <= 2
              /\ Abs(crop_region[2] + crop_region[4] - CropNewSize[2]) <= 2

\* C23 as stated: get_smart_crop_region never raises; when a step fails, the
\* failure to open the image included, it returns the center crop of target
\* size.
C23_FallsBackToCenter ==
    crop_pc \in {"returned", "cropped"} =>
        /\ ~crop_raised
        /\ ~crop_image.opens =>
              crop_region = CenterCropRegion(CropNewSize, crop_target)

\* The fixed order of the moods.
MoodOrder ==
    <<"sunset", "ocean", "forest", "city", "vintage", "dramatic", "soft">>

\* The positions in MoodOrder of the moods a keyword of which occurs in the
\* lowered analysis text.
MatchingMoods ==
    {i \in DOMAIN MoodOrder :
        \E k \in MoodKeywords(MoodOrder[i]) :
            Contains(Lower(mood_ai_content.analysis), k)}

\* C24: the mood is neutral when the AI content is absent, has no analysis
\* or matches no keyword; otherwise the first mood of the fixed order one of
\* whose keywords occurs in the text; it is always a key of PRESETS.
C24_MoodDetected ==
    mood \notin {"", "idle"} =>
        /\ mood \in PRESETS
        /\ (mood_ai_content.kind # "analysis" \/ MatchingMoods = {}) =>
               mood = "neutral"
        /\ (mood_ai_content.kind = "analysis" /\ MatchingMoods # {}) =>
               /\ mood = MoodOrder[CHOOSE i \in MatchingMoods :
                                      \A j \in MatchingMoods : i <= j]

\* "Sunset beach" matches sunset and ocean: sunset, the first, is returned.
C24_Witness ==
    /\ mood_ai_content.kind = "analysis"
    /\ mood_ai_content.analysis = <<"Sunset", " ", "beach">>
    /\ mood = "sunset"

\* C22: a task that fails returns the original path, which stands at the
\* task's position; every other position holds its own task's result; all
\* input files being there, the list returned is as long as the input.
C22_OriginalSubstituted ==
    /\ \A k \in 1 .. Len(pool_tasks) :
          pool_future[k] # <<>> =>
              /\ pool_future[k][1] \in {pool_tasks[k], ProcessedPath(pool_tasks[k])}
              /\ pool_future[k][1] \in pool_fs
    /\ pool_pc = "done" =>
          /\ Len(processed_files) = Len(pool_tasks)
          /\ \A k \in 1 .. Len(pool_tasks) :
                processed_files[k] = pool_future[k][1]

\* Three images, the second of which failed: its original path is second in
\* the list returned, between two processed copies.
C22_Witness ==
    /\ pool_pc = "done"
    /\ Len(pool_tasks) = 3
    /\ processed_files = <<ProcessedPath(pool_tasks[1]), pool_tasks[2],
                           ProcessedPath(pool_tasks[3])>>

\* C25 as stated: the progress values passed to progress_callback in a run
\* of generate_reels never decrease.
C25_ProgressNonDecreasing ==
    \A i \in 1 .. Len(prog_log) - 1 : prog_log[i] <= prog_log[i + 1]

\* C26 as stated: at every t in [0, clip duration) the normalized time
\* t / duration a Ken Burns effect of the clip computes lies in [0, 1], also
\* after the clip's duration was reassigned.
C26_NormalizedTimeInRange ==
    motion_pc = "rendered" =>
        \A i \in 1 .. Len(motion_effects) :
            motion_effects[i].fn \in KenBurnsFns =>
                /\ RLe(RInt(0), motion_t)
                /\ RLe(motion_t, motion_effects[i].duration)

\* C27: in every interleaving of uploads, background hashing and checks, a
\* mission whose status is "done" has its reference hash stored; a status,
\* once set, changes only from "pending" to "done" or to "error"; and a
\* check of a mission whose status is not "done" answers "mission not
\* ready" with neither the GPS test nor the similarity test evaluated.
C27_DoneOnlyWithHash ==
    /\ [](\A id \in DOMAIN mission_status :
              mission_status[id] = "done" => id \in DOMAIN mission_hash)
    /\ [][\A id \in MissionIds :
              Get(mission_status, id)' # Get(mission_status, id) =>
                  \/ id \notin DOMAIN mission_status /\ mission_status'[id] = "pending"
                  \/ /\ Get(mission_status, id) = "pending"
                     /\ mission_status'[id] \in {"done", "error"}]_vars
    /\ [][(check_pc = "idle" /\ Get(mission_status, check_req'.mission_id) # "done") =>
              /\ check_response' \in {NotReady, check_response}
              /\ check_evaluated' \in {{}, check_evaluated}
              /\ check_pc' = "idle"]_vars
    /\ [](check_evaluated # {} => Get(mission_status, check_req.mission_id) = "done")
    /\ [](check_response \notin {NoResponse, NotReady} =>
              Get(mission_status, check_response.mission_id) = "done")

C27_Witness ==
    /\ \E id \in DOMAIN mission_status : mission_status[id] = "error"
    /\ \E id \in DOMAIN mission_status :
           /\ mission_status[id] = "done"
           /\ check_response \notin {NoResponse, NotReady}
           /\ check_response.mission_id = id
           /\ check_response.success

\* C28: update_job_status on an id that has no job record returns False and
\* leaves the records as they are; on an existing job it returns True, and
\* the only fields of that job that differ afterwards are those passed as
\* non-None, updated_at, and completed_at, which is written exactly when
\* the status passed is COMPLETED or FAILED; the other jobs are unchanged.
JobFields ==
    {"job_id", "status", "progress", "message", "created_at", "updated_at",
     "completed_at", "error", "output_file", "metadata"}

PassedFields(args) ==
    (IF args.status # NoValue THEN {"status"} ELSE {})
        \cup {f \in DOMAIN args.fields : args.fields[f] # NoValue}

C28_UpdateChangesOnlyPassedFields ==
    [][(job_clock' # job_clock /\ job_call'.op = "update") =>
          LET args == job_call'.args
              id == args.job_id
              finishes == args.status \in {Some("completed"), Some("failed")}
          IN  IF id \notin DOMAIN jobs
              THEN job_call'.ret = FALSE /\ jobs' = jobs
              ELSE /\ job_call'.ret = TRUE
                   /\ DOMAIN jobs' = DOMAIN jobs
                   /\ \A other \in DOMAIN jobs \ {id} : jobs'[other] = jobs[other]
                   /\ \A f \in JobFields :
                          jobs'[id][f] # jobs[id][f] =>
                              f \in PassedFields(args) \cup {"updated_at"}
                                      \cup (IF finishes THEN {"completed_at"} ELSE {})
                   /\ jobs'[id].updated_at = job_clock'
                   /\ finishes => jobs'[id].completed_at = Some(job_clock')]_vars

C28_Witness ==
    /\ job_call.op = "update"
    /\ job_call.ret = TRUE
    /\ job_call.args.status = Some("completed")
    /\ job_call.args.fields.output_file = Some("reels.mp4")
    /\ job_call.args.fields.error = NoValue
    /\ DOMAIN jobs = JobIds
    /\ LET job_data == jobs[job_call.args.job_id]
       IN  /\ job_data.completed_at = Some(job_clock)
           /\ job_data.error = NoValue
           /\ job_data.progress = 0

\* C29: for every camera_style and every combination of motion toggles, a
\* clip built by _create_clip carries the Ken Burns effect only if
\* enable_ken_burns is true; with enable_ken_burns and every other motion
\* toggle false, _apply_camera_effects attaches no effect at all.
C29_KenBurnsOnlyWhenEnabled ==
    (motion_pc = "built" /\ motion_config.builder = "_create_clip") =>
        /\ (\E i \in 1 .. Len(motion_effects) :
                motion_effects[i].fn = "_apply_ken_burns")
               => motion_config.enable_ken_burns
        /\ (/\ ~motion_config.enable_ken_burns
            /\ ~motion_config.enable_3d_rotation
            /\ ~motion_config.enable_circular_motion
            /\ ~motion_config.enable_zoom_pan_combo
            /\ ~motion_config.enable_handheld
            /\ ~motion_config.enable_rotation) => motion_effects = <<>>

\* C30: every user input is routed to exactly one of the six handlers, and
\* the run ends after it; a detail or nearby request made while no search
\* result is stored for the current region answers "search first", calls no
\* lookup of the landmark agent, and leaves current_region and
\* search_results as they were.
C30_OneHandlerThenEnd ==
    /\ [](tour_node = "router" => router_intent(tour_input) \in Handlers)
    /\ [](tour_node = "END" =>
              /\ Len(tour_visited) = 1
              /\ tour_visited[1] \in Handlers
              /\ tour_visited[1] = tour_intent)
    /\ [][(tour_node \in Handlers) => (tour_node' = "END")]_vars
    /\ [][(/\ tour_node \in {"detail", "nearby"}
           /\ \/ travel_state.current_region = None
              \/ travel_state.current_region \notin DOMAIN travel_state.search_results) =>
              /\ tour_response' = SearchFirst
              /\ tour_lookups' = <<>>
              /\ travel_state' = travel_state]_vars

C30_Witness ==
    /\ tour_node = "END"
    /\ tour_visited = <<"nearby">>
    /\ tour_response = SearchFirst
    /\ tour_lookups = <<>>
    /\ travel_state.current_region = None

=============================================================================
